---- MODULE Spec2Model ----
(***************************************************************************)
(* Model of the Dither & Etch image processing engine                      *)
(* (src/src/lib/imageProcessing: alpha, adjustments, dithering, presets,   *)
(* masking, contour).                                                      *)
(*                                                                         *)
(* A pixel is a tuple <<r, g, b, a>> of bytes; the data of a buffer is the *)
(* sequence of its pixels in row-major order, so the byte offset idx = 4*i *)
(* of the source is pixel i + 1 here.  Buffers live in a heap of arrays    *)
(* indexed by identity, so that copying an array and aliasing it differ.   *)
(*                                                                         *)
(* Numbers: JavaScript doubles are modelled by exact rationals.  A gray    *)
(* value is held as an integer numerator over GrayDen = 255 * 1000; the    *)
(* Float32Array accumulators of the error diffusion algorithms are held   *)
(* in the same unit and a division rounds to the nearest unit (the unit,   *)
(* about 4e-6, is the precision of a float32 near 100).                    *)
(***************************************************************************)
EXTENDS Integers, Sequences, FiniteSets, TLC

VARIABLES
    input,   \* the ProcessingImageData passed to the engine: [id, width, height]
    orig,    \* the input's data when the call was made
    heap,    \* every array allocated so far, by identity
    call,    \* the engine function called and its arguments
    res      \* what the call returned or threw

vars == <<input, orig, heap, call, res>>

----------------------------------------------------------------------------
(* Bounds of the model *)

\* largest width * height of the images the dithering algorithms are run on
DitherMaxPixels == 6

\* largest width * height of the images the adjustments are run on
TonalMaxPixels == 9

\* largest width * height of the images the presets are applied to
PresetMaxPixels == 4

\* cannyEdgeDetection: uniform images up to this side, and every two-level
\* image of at most this many pixels
CannyMaxSide == 5
CannyMaxPixels == 9

\* largest width * height of the images and masks of the masking functions
MaskMaxPixels == 4

\* the contour functions: images holding one dark square up to this side, and
\* every two-level image of at most this many pixels
ContourMaxSide == 5
ContourMaxPixels == 9

\* largest width * height of the images every engine function is run on
EngineMaxPixels == 4

----------------------------------------------------------------------------
(* Numbers *)

Abs(n) == IF n < 0 THEN -n ELSE n
Min(a, b) == IF a < b THEN a ELSE b
Max(a, b) == IF a > b THEN a ELSE b

\* F(e) with e evaluated once: a const binding of the source
With(e, F(_)) == CHOOSE out \in {F(x) : x \in {e}} : TRUE

\* clamp(value, min = 0, max = 255) on a rational num / den, as a rational over den
clamp(num, den) == Max(0, Min(255 * den, num))

\* Storing the rational num / den (den > 0) into a Uint8ClampedArray: clamp to
\* 0..255 and round to the nearest integer, a tie to the even one.
ToUint8Clamp(num, den) ==
    LET c == clamp(num, den)
        q == c \div den
        r == c % den
    IN  IF 2 * r < den THEN q
        ELSE IF 2 * r > den THEN q + 1
        ELSE IF q % 2 = 0 THEN q ELSE q + 1

\* Storing the rational num / den (0 <= num / den <= 255) into a Uint8Array:
\* the fraction is dropped.
ToUint8(num, den) == (num \div den) % 256

\* Math.round of the rational num / den (den > 0): floor(x + 0.5)
MathRound(num, den) == (2 * num + den) \div (2 * den)

\* a division whose result is kept to the nearest unit of the accumulator
RoundDiv(num, den) == (2 * num + den) \div (2 * den)

----------------------------------------------------------------------------
(* alpha.ts and the dithering module's private copy of it *)

GrayDen == 255 * 1000

\* getGrayOnWhite(data, idx), as a numerator over GrayDen
getGrayOnWhite(p) ==
    LET a == p[4] IN
    IF a = 0 THEN 255 * GrayDen
    ELSE IF a < 255
    THEN LET r == p[1] * a + 255 * (255 - a)
             g == p[2] * a + 255 * (255 - a)
             b == p[3] * a + 255 * (255 - a)
         IN  299 * r + 587 * g + 114 * b
    ELSE 255 * (299 * p[1] + 587 * p[2] + 114 * p[3])

\* the gray of a pixel read without its alpha
getGray_NoAlpha(p) == 255 * (299 * p[1] + 587 * p[2] + 114 * p[3])

\* getGray(data, idx) of the dithering module, as a numerator over GrayDen
getGray(p) ==
    LET a == p[4] IN
    IF a = 0 THEN 255 * GrayDen
    ELSE IF a < 255
    THEN LET r == p[1] * a + 255 * (255 - a)
             g == p[2] * a + 255 * (255 - a)
             b == p[3] * a + 255 * (255 - a)
         IN  299 * r + 587 * g + 114 * b
    ELSE 255 * (299 * p[1] + 587 * p[2] + 114 * p[3])

----------------------------------------------------------------------------
(* Arrays *)

\* new Uint8ClampedArray(data): a new array holding a copy of array src
NewUint8ClampedArray_Alias(h, src) == [heap |-> h, id |-> src]

NewUint8ClampedArray(h, src) ==
    [heap |-> Append(h, h[src]), id |-> Len(h) + 1]

\* new Uint8ClampedArray(n): a new array of n zero pixels
NewZeroArray(h, n) ==
    [heap |-> Append(h, [i \in 1..n |-> <<0, 0, 0, 0>>]), id |-> Len(h) + 1]

\* A function that copies its input's data into `result`, writes d into
\* result and returns { width, height, data: result }.
ReturnCopy(h, im, d) ==
    LET a == NewUint8ClampedArray(h, im.id) IN
    [heap |-> [a.heap EXCEPT ![a.id] = d],
     img  |-> [id |-> a.id, width |-> im.width, height |-> im.height]]

\* The same for a function whose result starts as a zeroed array.
ReturnNew_Transposed(h, im, d) ==
    LET a == NewZeroArray(h, Len(h[im.id])) IN
    [heap |-> [a.heap EXCEPT ![a.id] = d],
     img  |-> [id |-> a.id, width |-> im.height, height |-> im.width]]

ReturnNew(h, im, d) ==
    LET a == NewZeroArray(h, Len(h[im.id])) IN
    [heap |-> [a.heap EXCEPT ![a.id] = d],
     img  |-> [id |-> a.id, width |-> im.width, height |-> im.height]]

----------------------------------------------------------------------------
(* dithering.ts *)

\* setPixel(data, idx, value) followed by result[idx + 3] = data[idx + 3]
setPixel_RedOnly(p, value) == <<value, p[2], p[3], p[4]>>

setPixel(p, value) == <<value, value, value, p[4]>>

\* newPixel = oldPixel < 128 ? 0 : 255
Quantize_Inverted(oldPixel) == IF oldPixel < 128 * GrayDen THEN 255 ELSE 0

Quantize(oldPixel) == IF oldPixel < 128 * GrayDen THEN 0 ELSE 255

\* the test with the column left unchecked on the left
InBounds_NoLeftEdge(nx, ny, width, height) ==
    nx < width /\ ny >= 0 /\ ny < height

\* nx >= 0 && nx < width && ny >= 0 && ny < height
InBounds(nx, ny, width, height) ==
    nx >= 0 /\ nx < width /\ ny >= 0 /\ ny < height

\* The taps of a kernel matrix: every (kx, ky) with ky > 0 || kx > 2, aimed at
\* (x + kx - 2, y + ky), as <<dx, dy, weight>>.
KernelTaps(kernel) ==
    LET cells == {c \in (1..Len(kernel)) \X (1..5) : c[1] > 1 \/ c[2] > 3}
        RECURSIVE list(_)
        list(S) == IF S = {} THEN <<>>
                   ELSE LET c == CHOOSE c \in S : TRUE
                        IN  <<<<c[2] - 3, c[1] - 1, kernel[c[1]][c[2]]>>>>
                            \o list(S \ {c})
    IN  list(cells)

FloydSteinbergTaps == <<<<1, 0, 7>>, <<-1, 1, 3>>, <<0, 1, 5>>, <<1, 1, 1>>>>

JarvisJudiceNinkeKernel ==
    <<<<0, 0, 0, 7, 5>>, <<3, 5, 7, 5, 3>>, <<1, 3, 5, 3, 1>>>>

StuckiKernel ==
    <<<<0, 0, 0, 8, 4>>, <<2, 4, 8, 4, 2>>, <<1, 2, 4, 2, 1>>>>

AtkinsonTaps ==
    <<<<1, 0, 1>>, <<2, 0, 1>>, <<-1, 1, 1>>, <<0, 1, 1>>, <<1, 1, 1>>,
      <<0, 2, 1>>>>

SierraKernel ==
    <<<<0, 0, 0, 5, 3>>, <<2, 4, 5, 4, 2>>, <<0, 2, 3, 2, 0>>>>

SierraTwoRowKernel == <<<<0, 0, 0, 4, 3>>, <<1, 2, 3, 2, 1>>>>

BurkesTaps ==
    <<<<1, 0, 8>>, <<2, 0, 4>>, <<-2, 1, 2>>, <<-1, 1, 4>>, <<0, 1, 8>>,
      <<1, 1, 4>>, <<2, 1, 2>>>>

\* errors after pixel idx (0-based) has spread quantError over its taps:
\* errors[ny * width + nx] += (quantError * weight) / divisor for the taps in
\* bounds
Distribute(errors, idx, quantError, taps, divisor, width, height) ==
    LET x == idx % width
        y == idx \div width
        RECURSIVE spread(_, _)
        spread(e, t) ==
            IF t > Len(taps) THEN e
            ELSE LET nx == x + taps[t][1]
                     ny == y + taps[t][2]
                 IN  IF InBounds(nx, ny, width, height)
                     THEN spread([e EXCEPT ![ny * width + nx + 1] =
                                     @ + RoundDiv(quantError * taps[t][3], divisor)],
                                 t + 1)
                     ELSE spread(e, t + 1)
    IN  spread(errors, 1)

\* The row-major scan of an error diffusion algorithm from pixel idx on.
RECURSIVE DiffuseFrom(_, _, _, _, _, _, _)
DiffuseFrom(idx, errors, result, taps, divisor, width, height) ==
    IF idx >= width * height THEN result
    ELSE LET oldPixel   == errors[idx + 1]
             newPixel   == Quantize(oldPixel)
             quantError == oldPixel - newPixel * GrayDen
         IN  DiffuseFrom(idx + 1,
                 Distribute(errors, idx, quantError, taps, divisor,
                            width, height),
                 [result EXCEPT ![idx + 1] = setPixel(result[idx + 1], newPixel)],
                 taps, divisor, width, height)

\* The body shared by the seven error diffusion algorithms: errors seeded
\* with getGray of every pixel, then the scan.
ErrorDiffusion(h, im, taps, divisor) ==
    LET data == h[im.id]
        errors == [i \in 1..(im.width * im.height) |-> getGray(data[i])]
    IN  ReturnCopy(h, im,
            DiffuseFrom(0, errors, data, taps, divisor, im.width, im.height))

floydSteinberg(h, im) == ErrorDiffusion(h, im, FloydSteinbergTaps, 16)

jarvisJudiceNinke(h, im) ==
    ErrorDiffusion(h, im, KernelTaps(JarvisJudiceNinkeKernel), 48)

stucki(h, im) == ErrorDiffusion(h, im, KernelTaps(StuckiKernel), 42)

atkinson(h, im) == ErrorDiffusion(h, im, AtkinsonTaps, 8)

sierra(h, im) == ErrorDiffusion(h, im, KernelTaps(SierraKernel), 32)

sierraTwoRow(h, im) == ErrorDiffusion(h, im, KernelTaps(SierraTwoRowKernel), 16)

burkes(h, im) == ErrorDiffusion(h, im, BurkesTaps, 32)

BayerMatrix8 ==
    <<<<0, 128, 32, 160, 8, 136, 40, 168>>,
      <<192, 64, 224, 96, 200, 72, 232, 104>>,
      <<48, 176, 16, 144, 56, 184, 24, 152>>,
      <<240, 112, 208, 80, 248, 120, 216, 88>>,
      <<12, 140, 44, 172, 4, 132, 36, 164>>,
      <<204, 76, 236, 108, 196, 68, 228, 100>>,
      <<60, 188, 28, 156, 52, 180, 20, 148>>,
      <<252, 124, 220, 92, 244, 116, 212, 84>>>>

BayerMatrix4 ==
    <<<<0, 136, 34, 170>>, <<204, 68, 238, 102>>, <<51, 187, 17, 153>>,
      <<255, 119, 221, 85>>>>

\* The body shared by the two ordered algorithms:
\* newPixel = gray > bayerMatrix[y % size][x % size] ? 255 : 0
OrderedDither(h, im, matrix, size) ==
    LET data == h[im.id]
        thresholdAt(i) == matrix[((i \div im.width) % size) + 1]
                                [((i % im.width) % size) + 1]
    IN  ReturnCopy(h, im,
            [i1 \in 1..Len(data) |->
                setPixel(data[i1],
                    IF getGray(data[i1]) > thresholdAt(i1 - 1) * GrayDen
                    THEN 255 ELSE 0)])

bayerOrdered(h, im) == OrderedDither(h, im, BayerMatrix8, 8)

bayerOrdered4x4(h, im) == OrderedDither(h, im, BayerMatrix4, 4)

\* the kernels with the divisor of burkes taken from sierraTwoRow
ErrorDiffusionKernel_BurkesDivisor(name) ==
    CASE name = "floydSteinberg" -> [taps |-> FloydSteinbergTaps, divisor |-> 16]
      [] name = "jarvisJudiceNinke" ->
            [taps |-> KernelTaps(JarvisJudiceNinkeKernel), divisor |-> 48]
      [] name = "stucki" -> [taps |-> KernelTaps(StuckiKernel), divisor |-> 42]
      [] name = "atkinson" -> [taps |-> AtkinsonTaps, divisor |-> 8]
      [] name = "sierra" -> [taps |-> KernelTaps(SierraKernel), divisor |-> 32]
      [] name = "sierraTwoRow" ->
            [taps |-> KernelTaps(SierraTwoRowKernel), divisor |-> 16]
      [] name = "burkes" -> [taps |-> BurkesTaps, divisor |-> 16]

\* the taps and the divisor of each error diffusion algorithm
ErrorDiffusionKernel(name) ==
    CASE name = "floydSteinberg" -> [taps |-> FloydSteinbergTaps, divisor |-> 16]
      [] name = "jarvisJudiceNinke" ->
            [taps |-> KernelTaps(JarvisJudiceNinkeKernel), divisor |-> 48]
      [] name = "stucki" -> [taps |-> KernelTaps(StuckiKernel), divisor |-> 42]
      [] name = "atkinson" -> [taps |-> AtkinsonTaps, divisor |-> 8]
      [] name = "sierra" -> [taps |-> KernelTaps(SierraKernel), divisor |-> 32]
      [] name = "sierraTwoRow" ->
            [taps |-> KernelTaps(SierraTwoRowKernel), divisor |-> 16]
      [] name = "burkes" -> [taps |-> BurkesTaps, divisor |-> 32]

ErrorDiffusionNames ==
    {"floydSteinberg", "jarvisJudiceNinke", "stucki", "atkinson", "sierra",
     "sierraTwoRow", "burkes"}

\* ditheringAlgorithms[name](imageData)
ditheringAlgorithms(name, h, im) ==
    CASE name = "floydSteinberg"    -> floydSteinberg(h, im)
      [] name = "jarvisJudiceNinke" -> jarvisJudiceNinke(h, im)
      [] name = "stucki"            -> stucki(h, im)
      [] name = "atkinson"          -> atkinson(h, im)
      [] name = "sierra"            -> sierra(h, im)
      [] name = "sierraTwoRow"      -> sierraTwoRow(h, im)
      [] name = "burkes"            -> burkes(h, im)
      [] name = "bayerOrdered"      -> bayerOrdered(h, im)
      [] name = "bayerOrdered4x4"   -> bayerOrdered4x4(h, im)

----------------------------------------------------------------------------
(* adjustments.ts *)

\* the red, green and blue of every pixel replaced by f of them, alpha kept
MapRGB(data, f(_)) ==
    [i \in 1..Len(data) |->
        <<f(data[i][1]), f(data[i][2]), f(data[i][3]), data[i][4]>>]

toGrayscale(h, im) ==
    LET data == h[im.id] IN
    ReturnCopy(h, im,
        [i \in 1..Len(data) |->
            LET gray == ToUint8Clamp(getGrayOnWhite(data[i]), GrayDen)
            IN  <<gray, gray, gray, data[i][4]>>])

adjustBrightness(h, im, amount) ==
    LET f(v) == ToUint8Clamp(v + amount, 1)
    IN  ReturnCopy(h, im, MapRGB(h[im.id], f))

\* factor = (259 * (amount + 255)) / (255 * (259 - amount)) and
\* ((v / 255 - 0.5) * factor + 0.5) * 255, over the common denominator
adjustContrast(h, im, amount) ==
    LET f(v) == ToUint8Clamp(
                    (2 * v - 255) * 259 * (amount + 255)
                        + 255 * 255 * (259 - amount),
                    2 * 255 * (259 - amount))
    IN  ReturnCopy(h, im, MapRGB(h[im.id], f))

\* Math.pow(i / 255, 1 / 1.1) * 255 with its fraction dropped, i = 0..255
GammaTable110 ==
    <<
      0, 1, 3, 4, 5, 7, 8, 9, 10, 12, 13, 14, 15, 17, 18, 19,
      20, 21, 22, 24, 25, 26, 27, 28, 29, 30, 31, 33, 34, 35, 36, 37,
      38, 39, 40, 41, 43, 44, 45, 46, 47, 48, 49, 50, 51, 52, 53, 54,
      55, 56, 57, 59, 60, 61, 62, 63, 64, 65, 66, 67, 68, 69, 70, 71,
      72, 73, 74, 75, 76, 77, 78, 79, 80, 81, 82, 83, 84, 85, 86, 87,
      88, 89, 90, 91, 92, 93, 94, 95, 96, 97, 98, 99, 100, 101, 102, 103,
      104, 105, 106, 107, 108, 109, 110, 111, 112, 113, 114, 115, 116, 117, 118, 119,
      120, 121, 122, 123, 124, 125, 126, 127, 128, 129, 130, 131, 132, 133, 134, 135,
      136, 137, 138, 139, 140, 141, 142, 143, 143, 144, 145, 146, 147, 148, 149, 150,
      151, 152, 153, 154, 155, 156, 157, 158, 159, 160, 161, 162, 163, 164, 165, 165,
      166, 167, 168, 169, 170, 171, 172, 173, 174, 175, 176, 177, 178, 179, 180, 181,
      182, 182, 183, 184, 185, 186, 187, 188, 189, 190, 191, 192, 193, 194, 195, 196,
      197, 197, 198, 199, 200, 201, 202, 203, 204, 205, 206, 207, 208, 209, 210, 210,
      211, 212, 213, 214, 215, 216, 217, 218, 219, 220, 221, 222, 222, 223, 224, 225,
      226, 227, 228, 229, 230, 231, 232, 233, 234, 234, 235, 236, 237, 238, 239, 240,
      241, 242, 243, 244, 244, 245, 246, 247, 248, 249, 250, 251, 252, 253, 254, 255>>

\* Math.pow(i / 255, 1 / 1.05) * 255 with its fraction dropped, i = 0..255
GammaTable105 ==
    <<
      0, 1, 2, 3, 4, 6, 7, 8, 9, 10, 11, 12, 13, 14, 16, 17,
      18, 19, 20, 21, 22, 23, 24, 25, 26, 27, 28, 30, 31, 32, 33, 34,
      35, 36, 37, 38, 39, 40, 41, 42, 43, 44, 45, 46, 47, 48, 49, 50,
      51, 53, 54, 55, 56, 57, 58, 59, 60, 61, 62, 63, 64, 65, 66, 67,
      68, 69, 70, 71, 72, 73, 74, 75, 76, 77, 78, 79, 80, 81, 82, 83,
      84, 85, 86, 87, 88, 89, 90, 91, 92, 93, 94, 95, 96, 97, 98, 99,
      100, 101, 102, 103, 104, 105, 106, 107, 108, 109, 110, 111, 112, 113, 114, 115,
      116, 117, 118, 119, 120, 121, 122, 123, 124, 125, 126, 127, 128, 129, 130, 131,
      132, 133, 134, 135, 136, 137, 138, 139, 140, 141, 142, 143, 144, 145, 146, 146,
      147, 148, 149, 150, 151, 152, 153, 154, 155, 156, 157, 158, 159, 160, 161, 162,
      163, 164, 165, 166, 167, 168, 169, 170, 171, 172, 173, 174, 175, 176, 177, 178,
      179, 180, 181, 182, 183, 183, 184, 185, 186, 187, 188, 189, 190, 191, 192, 193,
      194, 195, 196, 197, 198, 199, 200, 201, 202, 203, 204, 205, 206, 207, 208, 209,
      210, 210, 211, 212, 213, 214, 215, 216, 217, 218, 219, 220, 221, 222, 223, 224,
      225, 226, 227, 228, 229, 230, 231, 232, 233, 234, 234, 235, 236, 237, 238, 239,
      240, 241, 242, 243, 244, 245, 246, 247, 248, 249, 250, 251, 252, 253, 254, 255>>

\* lookupTable[i] = clamp(Math.pow(i / 255, 1 / gamma) * 255), stored in a
\* Uint8Array; gamma is given in hundredths.
lookupTable_Over256(gamma100, i) ==
    IF gamma100 = 100 THEN ToUint8(clamp(i * 255, 256), 256)
    ELSE ToUint8(clamp(i * i * 255, 256 * 256), 256 * 256)

lookupTable(gamma100, i) ==
    CASE gamma100 = 100 -> ToUint8(clamp(i * 255, 255), 255)
      [] gamma100 = 50  -> ToUint8(clamp(i * i * 255, 255 * 255), 255 * 255)
      [] gamma100 = 110 -> GammaTable110[i + 1]
      [] gamma100 = 105 -> GammaTable105[i + 1]

adjustGamma(h, im, gamma100) ==
    LET f(v) == lookupTable(gamma100, v)
    IN  ReturnCopy(h, im, MapRGB(h[im.id], f))

invert(h, im) ==
    LET f(v) == 255 - v
    IN  ReturnCopy(h, im, MapRGB(h[im.id], f))

\* One pass of boxBlur over data, for a radius given in halves (radius2 = 2 *
\* radius).  The loop variable dx runs over -radius, -radius + 1, ... while
\* dx <= radius and a neighbour counts when nx >= 0 && nx < width; the bytes
\* read are data[idx], data[idx + 1], data[idx + 2] at idx = (y * width + nx)
\* * 4, which for a half-integer nx is two bytes off a pixel boundary.  A read
\* past the end of the array is undefined, the sum is then NaN, and NaN (or
\* 0 / 0) is stored as 0.
BlurPass(data, width, height, radius2, dx, dy) ==
    [i \in 1..Len(data) |->
        LET x == (i - 1) % width
            y == (i - 1) \div width
            near == {d \in {2 * k - radius2 : k \in 0..radius2} :
                        /\ 2 * x + d * dx >= 0 /\ 2 * x + d * dx < 2 * width
                        /\ 2 * y + d * dy >= 0 /\ 2 * y + d * dy < 2 * height}
            byte(d, c) == 4 * (i - 1) + 2 * d * (dx + dy * width) + c - 1
            at(d, c) == data[(byte(d, c) \div 4) + 1][(byte(d, c) % 4) + 1]
            RECURSIVE sum(_, _)
            sum(S, c) == IF S = {} THEN 0
                         ELSE LET d == CHOOSE d \in S : TRUE
                              IN  at(d, c) + sum(S \ {d}, c)
            count == Cardinality(near)
            average(c) ==
                IF count = 0 \/ \E d \in near : byte(d, c) >= 4 * Len(data)
                THEN 0
                ELSE ToUint8Clamp(sum(near, c), count)
        IN  <<average(1), average(2), average(3), data[i][4]>>]

\* boxBlur(imageData, radius) for radius = radius2 / 2
boxBlur(h, im, radius2) ==
    LET vertical(temp) ==
            LET tmp == NewUint8ClampedArray(h, im.id)
            IN  ReturnCopy([tmp.heap EXCEPT ![tmp.id] = temp], im,
                           BlurPass(temp, im.width, im.height, radius2, 0, 1))
    IN  With(BlurPass(h[im.id], im.width, im.height, radius2, 1, 0), vertical)

\* unsharpMask(imageData, radius, amount, threshold) for radius = radius2 / 2
unsharpMask(h, im, radius2, amount, thresholdArg) ==
    LET data == h[im.id]
        sharpen(blurred) ==
            LET blur == blurred.heap[blurred.img.id]
                sharp(i, c) ==
                    LET original == data[i][c]
                        diff == original - blur[i][c]
                    IN  IF Abs(diff) >= thresholdArg
                        THEN ToUint8Clamp(100 * original + diff * amount, 100)
                        ELSE original
            IN  ReturnCopy(blurred.heap, im,
                    [i \in 1..Len(data) |->
                        <<sharp(i, 1), sharp(i, 2), sharp(i, 3), data[i][4]>>])
    IN  With(boxBlur(h, im, radius2), sharpen)

\* the pixels with a full 3 x 3 (radius 1) or larger neighbourhood
Interior(i, width, height, radius) ==
    LET x == (i - 1) % width
        y == (i - 1) \div width
    IN  x >= radius /\ x < width - radius /\ y >= radius /\ y < height - radius

\* edgeEnhance with its result allocated by length instead of copied
edgeEnhance_ZeroResult(h, im, strength10) ==
    LET data == h[im.id]
        w == im.width
        lap(i, c) == 4 * data[i][c] - data[i - 1][c] - data[i + 1][c]
                     - data[i - w][c] - data[i + w][c]
        f(i, c) == ToUint8Clamp(20 * data[i][c] + lap(i, c) * strength10, 20)
    IN  ReturnNew(h, im,
            [i \in 1..Len(data) |->
                IF Interior(i, w, im.height, 1)
                THEN <<f(i, 1), f(i, 2), f(i, 3), data[i][4]>>
                ELSE <<0, 0, 0, 0>>])

\* strength is given in tenths;
\* result = clamp(v + sum * strength * 0.5) with the Laplacian sum
edgeEnhance(h, im, strength10) ==
    LET data == h[im.id]
        w == im.width
        lap(i, c) == 4 * data[i][c] - data[i - 1][c] - data[i + 1][c]
                     - data[i - w][c] - data[i + w][c]
        f(i, c) == ToUint8Clamp(20 * data[i][c] + lap(i, c) * strength10, 20)
    IN  ReturnCopy(h, im,
            [i \in 1..Len(data) |->
                IF Interior(i, w, im.height, 1)
                THEN <<f(i, 1), f(i, 2), f(i, 3), data[i][4]>>
                ELSE data[i]])

denoise(h, im, strength) ==
    LET data == h[im.id]
        w == im.width
        radius == Max(1, strength \div 20)
        thresholdVal == strength * 2
        f(i, c) ==
            LET centerValue == data[i][c]
                near == {d \in ((-radius)..radius) \X ((-radius)..radius) :
                            Abs(data[i + d[2] * w + d[1]][c] - centerValue)
                                < thresholdVal}
                RECURSIVE sum(_)
                sum(S) == IF S = {} THEN 0
                          ELSE LET d == CHOOSE d \in S : TRUE
                               IN  data[i + d[2] * w + d[1]][c] + sum(S \ {d})
            IN  IF Cardinality(near) > 0
                THEN ToUint8Clamp(sum(near), Cardinality(near))
                ELSE centerValue
    IN  ReturnCopy(h, im,
            [i \in 1..Len(data) |->
                IF Interior(i, w, im.height, radius)
                THEN <<f(i, 1), f(i, 2), f(i, 3), data[i][4]>>
                ELSE data[i]])

\* result = clamp(((v - minLevel) / range) * 255)
Levels(data, minLevel, range) ==
    LET f(v) == ToUint8Clamp((v - minLevel) * 255, range)
    IN  MapRGB(data, f)

autoAdjust(h, im) ==
    LET data == h[im.id]
        gray(i) == MathRound(getGrayOnWhite(data[i]), GrayDen)
        clipAmount == (im.width * im.height * 5) \div 1000
        below(l) == Cardinality({i \in 1..Len(data) : gray(i) <= l})
        above(l) == Cardinality({i \in 1..Len(data) : gray(i) >= l})
        lows == {l \in 0..255 : below(l) > clipAmount}
        highs == {l \in 0..255 : above(l) > clipAmount}
        minLevel == IF lows = {} THEN 0
                    ELSE CHOOSE l \in lows : \A k \in lows : l <= k
        maxLevel == IF highs = {} THEN 255
                    ELSE CHOOSE l \in highs : \A k \in highs : l >= k
        range == maxLevel - minLevel
    IN  ReturnCopy(h, im,
            IF range > 0 THEN Levels(data, minLevel, range) ELSE data)

adjustLevels(h, im, blackPoint, whitePoint) ==
    LET bp == clamp(blackPoint, 1)
        wp == clamp(whitePoint, 1)
        minLevel == Min(bp, wp)
        maxLevel == Max(bp, wp)
        range == Max(1, maxLevel - minLevel)
    IN  ReturnCopy(h, im,
            IF minLevel = 0 /\ maxLevel = 255 THEN h[im.id]
            ELSE Levels(h[im.id], minLevel, range))

threshold(h, im, thresholdValue) ==
    LET data == h[im.id]
        t == clamp(thresholdValue, 1)
    IN  ReturnCopy(h, im,
            [i \in 1..Len(data) |->
                LET v == IF data[i][1] < t THEN 0 ELSE 255
                IN  <<v, v, v, data[i][4]>>])

\* shadows: v + (50 - v) * (shadowLift / 100) when v < 50; highlights:
\* 230 + (v - 230) * (1 - highlightCompress / 100) when the value is above 230
colorCorrection(h, im, shadowLift, highlightCompress) ==
    LET f(v) ==
            LET lifted == IF v < 50 THEN 100 * v + (50 - v) * shadowLift
                          ELSE 100 * v
            IN  IF lifted > 230 * 100
                THEN ToUint8Clamp(230 * 100 * 100
                         + (lifted - 230 * 100) * (100 - highlightCompress),
                         100 * 100)
                ELSE ToUint8Clamp(lifted, 100)
    IN  ReturnCopy(h, im, MapRGB(h[im.id], f))

sketchEffect(h, im) ==
    LET data == h[im.id]
        dodge(gray) ==
            LET blendWith(blurred) ==
                    LET base(i) == blurred.heap[gray.img.id][i][1]
                        blend(i) == blurred.heap[blurred.img.id][i][1]
                    IN  ReturnCopy(blurred.heap, im,
                            [i \in 1..Len(data) |->
                                LET value ==
                                    IF blend(i) = 255 THEN 255
                                    ELSE ToUint8Clamp(base(i) * 255,
                                                      255 - blend(i))
                                IN  <<value, value, value, data[i][4]>>])
                blur(inverted) ==
                    With(boxBlur(inverted.heap, inverted.img, 2 * 5), blendWith)
            IN  With(invert(gray.heap, gray.img), blur)
    IN  With(toGrayscale(h, im), dodge)

----------------------------------------------------------------------------
(* presets.ts *)

\* the catalogue; gamma is given in hundredths and edgeEnhance in tenths
presets ==
    [photoRealism |->
        [adjustments |-> [contrast |-> 15, gamma |-> 110, sharpenAmount |-> 80,
                          sharpenRadius |-> 1, autoAdjust |-> TRUE],
         ditheringAlgorithm |-> "jarvisJudiceNinke"],
     trueTone |->
        [adjustments |-> [autoAdjust |-> TRUE, sharpenAmount |-> 40,
                          gamma |-> 100],
         ditheringAlgorithm |-> "jarvisJudiceNinke"],
     deepBurn |->
        [adjustments |-> [contrast |-> 25, colorCorrection |-> TRUE,
                          shadowLift |-> 30, highlightCompress |-> 15,
                          sharpenAmount |-> 100],
         ditheringAlgorithm |-> "stucki"],
     softDetail |->
        [adjustments |-> [gamma |-> 105, sharpenAmount |-> 60,
                          sharpenRadius |-> 1, edgeEnhance |-> 5],
         ditheringAlgorithm |-> "sierra"],
     stoneSlate |->
        [adjustments |-> [denoise |-> 25, edgeEnhance |-> 12,
                          sharpenAmount |-> 70, contrast |-> 20],
         ditheringAlgorithm |-> "stucki"],
     glassAcrylic |->
        [adjustments |-> [colorCorrection |-> TRUE, shadowLift |-> 40,
                          highlightCompress |-> 20, contrast |-> 35,
                          sharpenAmount |-> 120],
         ditheringAlgorithm |-> "stucki"],
     forgiving |->
        [adjustments |-> [sharpenAmount |-> 50, gamma |-> 105, contrast |-> 10],
         ditheringAlgorithm |-> "sierra"],
     edgePop |->
        [adjustments |-> [colorCorrection |-> TRUE, shadowLift |-> 15,
                          edgeEnhance |-> 8, sharpenAmount |-> 90],
         ditheringAlgorithm |-> "burkes"],
     highContrast |->
        [adjustments |-> [contrast |-> 40, brightness |-> 10,
                          sharpenAmount |-> 150, sharpenRadius |-> 2],
         ditheringAlgorithm |-> "floydSteinberg"],
     pencilSketch |->
        [adjustments |-> <<>>,
         ditheringAlgorithm |-> "atkinson"]]

\* the names every object inherits from Object.prototype
ObjectPrototypeNames ==
    {"constructor", "__proto__", "toString", "valueOf", "hasOwnProperty",
     "isPrototypeOf", "propertyIsEnumerable", "toLocaleString"}

\* presets[presetName]: an entry of the catalogue, a member inherited from
\* Object.prototype (truthy, with no adjustments), or undefined
PresetLookup(presetName) ==
    IF presetName \in DOMAIN presets
    THEN [found |-> TRUE, config |-> presets[presetName]]
    ELSE IF presetName \in ObjectPrototypeNames
    THEN [found |-> TRUE, config |-> [inherited |-> presetName]]
    ELSE [found |-> FALSE]

\* adj.field, or dflt when the field is absent (undefined)
Field(adj, name, dflt) == IF name \in DOMAIN adj THEN adj[name] ELSE dflt

\* the pipeline `run` after the transform f, called `name`, ran on its image
Step(name, run, f(_, _)) ==
    LET after(r) == [heap |-> r.heap, img |-> r.img,
                     steps |-> Append(run.steps, name)]
    IN  With(f(run.heap, run.img), after)

\* the adjustment steps of applyPreset from the k-th on, then the dithering
RECURSIVE PresetSteps(_, _, _)
PresetSteps(k, preset, run) ==
    LET adj == preset.adjustments
        rest(r) == PresetSteps(k + 1, preset, r)
        doAutoAdjust(h, im) == autoAdjust(h, im)
        doColorCorrection(h, im) ==
            colorCorrection(h, im, Field(adj, "shadowLift", 20),
                            Field(adj, "highlightCompress", 10))
        doDenoise(h, im) == denoise(h, im, adj.denoise)
        doGamma(h, im) == adjustGamma(h, im, adj.gamma)
        doBrightness(h, im) == adjustBrightness(h, im, adj.brightness)
        doContrast(h, im) == adjustContrast(h, im, adj.contrast)
        doEdgeEnhance(h, im) == edgeEnhance(h, im, adj.edgeEnhance)
        doUnsharpMask(h, im) ==
            unsharpMask(h, im, 2 * Field(adj, "sharpenRadius", 1),
                        adj.sharpenAmount, 0)
        doDither(h, im) == ditheringAlgorithms(preset.ditheringAlgorithm, h, im)
    IN  CASE k = 1 -> IF Field(adj, "autoAdjust", FALSE)
                      THEN With(Step("autoAdjust", run, doAutoAdjust), rest)
                      ELSE rest(run)
          [] k = 2 -> IF Field(adj, "colorCorrection", FALSE)
                      THEN With(Step("colorCorrection", run, doColorCorrection),
                                rest)
                      ELSE rest(run)
          [] k = 3 -> IF Field(adj, "denoise", 0) > 0
                      THEN With(Step("denoise", run, doDenoise), rest)
                      ELSE rest(run)
          [] k = 4 -> IF Field(adj, "gamma", 0) # 0
                         /\ Field(adj, "gamma", 0) # 100
                      THEN With(Step("adjustGamma", run, doGamma), rest)
                      ELSE rest(run)
          [] k = 5 -> IF Field(adj, "brightness", 0) # 0
                      THEN With(Step("adjustBrightness", run, doBrightness), rest)
                      ELSE rest(run)
          [] k = 6 -> IF Field(adj, "contrast", 0) # 0
                      THEN With(Step("adjustContrast", run, doContrast), rest)
                      ELSE rest(run)
          [] k = 7 -> IF Field(adj, "edgeEnhance", 0) > 0
                      THEN With(Step("edgeEnhance", run, doEdgeEnhance), rest)
                      ELSE rest(run)
          [] k = 8 -> IF Field(adj, "sharpenAmount", 0) > 0
                      THEN With(Step("unsharpMask", run, doUnsharpMask), rest)
                      ELSE rest(run)
          [] k = 9 -> Step(preset.ditheringAlgorithm, run, doDither)

\* applyPreset with pencilSketch taken through the steps of the other presets
applyPreset_SketchAsOthers(h, im, presetName) ==
    LET preset == PresetLookup(presetName)
        copy == NewUint8ClampedArray(h, im.id)
        r0 == [heap |-> copy.heap,
               img |-> [id |-> copy.id, width |-> im.width,
                        height |-> im.height],
               steps |-> <<>>]
        returned(r) == r @@ [threw |-> "nothing"]
        afterGray(r1) ==
            IF "adjustments" \notin DOMAIN preset.config
            THEN [threw |-> "TypeError", heap |-> r1.heap, steps |-> r1.steps]
            ELSE With(PresetSteps(1, preset.config, r1), returned)
    IN  IF ~preset.found
        THEN [threw |-> "Error: Unknown preset", heap |-> h, steps |-> <<>>]
        ELSE With(Step("toGrayscale", r0, toGrayscale), afterGray)

\* applyPreset(imageData, presetName): what it throws, or the buffer it
\* returns, with the transforms it ran in order
applyPreset(h, im, presetName) ==
    LET preset == PresetLookup(presetName)
        copy == NewUint8ClampedArray(h, im.id)
        r0 == [heap |-> copy.heap,
               img |-> [id |-> copy.id, width |-> im.width,
                        height |-> im.height],
               steps |-> <<>>]
        returned(r) == r @@ [threw |-> "nothing"]
        doSketch(hh, i) == sketchEffect(hh, i)
        doDither(hh, i) ==
            ditheringAlgorithms(preset.config.ditheringAlgorithm, hh, i)
        sketch(r1) ==
            LET dither(s) ==
                    Step(preset.config.ditheringAlgorithm, s, doDither)
            IN  With(Step("sketchEffect", r1, doSketch), dither)
        afterGray(r1) ==
            IF presetName = "pencilSketch" THEN With(sketch(r1), returned)
            ELSE IF "adjustments" \notin DOMAIN preset.config
            THEN [threw |-> "TypeError", heap |-> r1.heap, steps |-> r1.steps]
            ELSE With(PresetSteps(1, preset.config, r1), returned)
    IN  IF ~preset.found
        THEN [threw |-> "Error: Unknown preset", heap |-> h, steps |-> <<>>]
        ELSE With(Step("toGrayscale", r0, toGrayscale), afterGray)

----------------------------------------------------------------------------
(* contour: cannyEdgeDetection *)

\* gray[i] = getGrayOnWhite(data, i * 4) held in the Float32Array; the images
\* of InitCanny have whole gray levels, which the array holds exactly
CannyGray(p) == RoundDiv(getGrayOnWhite(p), GrayDen)

GaussianKernel == <<1, 2, 1, 2, 4, 2, 1, 2, 1>>

\* 16 * blurred: the 3 x 3 kernel on the pixels y, x in 1..size-2; the
\* border entries of the Float32Array keep their initial 0
Blurred16(gray, width, height) ==
    [i \in 1..(width * height) |->
        LET tap(dx, dy) == gray[i + dy * width + dx]
                               * GaussianKernel[(dy + 1) * 3 + dx + 2]
        IN  IF Interior(i, width, height, 1)
            THEN tap(-1, -1) + tap(0, -1) + tap(1, -1)
                 + tap(-1, 0) + tap(0, 0) + tap(1, 0)
                 + tap(-1, 1) + tap(0, 1) + tap(1, 1)
            ELSE 0]

\* the Sobel gradients (in sixteenths) of the interior pixels, with the
\* square of magnitude[idx]; border entries stay 0
Sobel(blurred, width, height) ==
    [i \in 1..(width * height) |->
        LET b(dx, dy) == blurred[i + dy * width + dx]
            gx == -b(-1, -1) + b(1, -1) - 2 * b(-1, 0) + 2 * b(1, 0)
                  - b(-1, 1) + b(1, 1)
            gy == -b(-1, -1) - 2 * b(0, -1) - b(1, -1)
                  + b(-1, 1) + 2 * b(0, 1) + b(1, 1)
        IN  IF Interior(i, width, height, 1)
            THEN [gx |-> gx, gy |-> gy, magSq |-> gx * gx + gy * gy]
            ELSE [gx |-> 0, gy |-> 0, magSq |-> 0]]

\* the branch of non-maximum suppression taken for absAngle =
\* |atan2(gy, gx)|: tan(pi/8) = sqrt(2) - 1 and tan(3pi/8) = sqrt(2) + 1
DirectionBin(gx, gy) ==
    LET a == Abs(gx)
        b == Abs(gy)
        shallow == (a = 0 /\ b = 0) \/ (a + b) * (a + b) < 2 * a * a
        steep == b > a /\ (b - a) * (b - a) > 2 * a * a
    IN  IF shallow THEN "horizontal"
        ELSE IF gx > 0 /\ ~steep THEN "diagonalUp"
        ELSE IF steep THEN "vertical"
        ELSE "diagonalDown"

\* the square of suppressed[idx]
Suppress(grad, width, height) ==
    [i \in 1..(width * height) |->
        LET mag(dx, dy) == grad[i + dy * width + dx].magSq
            bin == DirectionBin(grad[i].gx, grad[i].gy)
            neighbor1 == CASE bin = "horizontal" -> mag(-1, 0)
                           [] bin = "diagonalUp" -> mag(1, -1)
                           [] bin = "vertical" -> mag(0, -1)
                           [] bin = "diagonalDown" -> mag(-1, -1)
            neighbor2 == CASE bin = "horizontal" -> mag(1, 0)
                           [] bin = "diagonalUp" -> mag(-1, 1)
                           [] bin = "vertical" -> mag(0, 1)
                           [] bin = "diagonalDown" -> mag(1, 1)
        IN  IF /\ Interior(i, width, height, 1)
               /\ grad[i].magSq >= neighbor1
               /\ grad[i].magSq >= neighbor2
            THEN grad[i].magSq
            ELSE 0]

\* suppressed[idx] >= t for a magnitude given by its square in sixteenths
AtLeast(magSq, t) == t <= 0 \/ magSq >= 256 * t * t

\* edgesOutput after the double threshold: 2 strong, 1 weak, 0 none
DoubleThreshold(suppressed, lowThreshold, highThreshold) ==
    [i \in 1..Len(suppressed) |->
        IF AtLeast(suppressed[i], highThreshold) THEN 2
        ELSE IF AtLeast(suppressed[i], lowThreshold) THEN 1
        ELSE 0]

\* one pass of the hysteresis loop over the interior pixels from index i on,
\* in raster order and in place
RECURSIVE HysteresisPass(_, _, _, _)
HysteresisPass(edges, i, width, height) ==
    IF i > width * height THEN edges
    ELSE IF /\ Interior(i, width, height, 1)
            /\ edges[i] = 1
            /\ \E dy \in -1..1, dx \in -1..1 : edges[i + dy * width + dx] = 2
    THEN HysteresisPass([edges EXCEPT ![i] = 2], i + 1, width, height)
    ELSE HysteresisPass(edges, i + 1, width, height)

\* while (changed) { ... }
RECURSIVE Hysteresis(_, _, _)
Hysteresis(edges, width, height) ==
    LET again(next) == IF next = edges THEN edges
                       ELSE Hysteresis(next, width, height)
    IN  With(HysteresisPass(edges, 1, width, height), again)

\* edgesOutput of cannyEdgeDetection before the output image is created
CannyEdges(data, width, height, lowThreshold, highThreshold) ==
    LET hysteresis(edges) == Hysteresis(edges, width, height)
        classify(suppressed) ==
            With(DoubleThreshold(suppressed, lowThreshold, highThreshold),
                 hysteresis)
        suppress(grad) == With(Suppress(grad, width, height), classify)
        sobel(blurred) == With(Sobel(blurred, width, height), suppress)
        blur(gray) == With(Blurred16(gray, width, height), sobel)
    IN  With([i \in 1..Len(data) |-> CannyGray(data[i])], blur)

cannyEdgeDetection(h, im, lowThreshold, highThreshold) ==
    LET output(edgesOutput) ==
            ReturnNew(h, im,
                [i \in 1..Len(edgesOutput) |->
                    IF edgesOutput[i] = 2 THEN <<0, 0, 0, 255>>
                    ELSE <<255, 255, 255, 255>>])
    IN  With(CannyEdges(h[im.id], im.width, im.height,
                        lowThreshold, highThreshold), output)

----------------------------------------------------------------------------
(* masking.ts *)

\* the red values a mask pixel takes in the model
MaskLevels == {0, 101, 255}

\* every opaque gray mask over MaskLevels whose pixel i has a level of
\* levels[i]
GrayMasks(levels) ==
    {[i \in DOMAIN levels |-> <<f[i], f[i], f[i], 255>>] :
        f \in {g \in [DOMAIN levels -> MaskLevels] :
                  \A i \in DOMAIN levels : g[i] \in levels[i]}}

\* the ids of predefinedMasks
predefinedMasks ==
    {"circle", "heart", "star", "hexagon", "oval", "diamond", "rounded-rect",
     "triangle"}

\* the path that the switch of generateShapeMask fills in white, with the
\* default branch drawing the diamond
ShapePath_DefaultDiamond(shapeId) ==
    CASE shapeId = "circle" -> "arc"
      [] shapeId = "heart" -> "drawHeart"
      [] shapeId = "star" -> "drawStar5"
      [] shapeId = "hexagon" -> "drawPolygon6"
      [] shapeId = "oval" -> "ellipse"
      [] shapeId = "diamond" -> "drawDiamond"
      [] shapeId = "rounded-rect" -> "roundedRect"
      [] shapeId = "triangle" -> "drawPolygon3"
      [] OTHER -> "drawDiamond"

\* the path that the switch of generateShapeMask fills in white; every path
\* is drawn around (width / 2, height / 2) with size = min(width, height) *
\* 0.45
ShapePath(shapeId) ==
    CASE shapeId = "circle" -> "arc"
      [] shapeId = "heart" -> "drawHeart"
      [] shapeId = "star" -> "drawStar5"
      [] shapeId = "hexagon" -> "drawPolygon6"
      [] shapeId = "oval" -> "ellipse"
      [] shapeId = "diamond" -> "drawDiamond"
      [] shapeId = "rounded-rect" -> "roundedRect"
      [] shapeId = "triangle" -> "drawPolygon3"
      [] OTHER -> "arc"

\* the levels pixel i of a width x height canvas may take once path is filled
\* in white over black: a pixel that the disc of the arc covers is 255, one
\* that it misses is 0 and one that it crosses is of any level; the other
\* paths are taken to cross every pixel.  Lengths are in twentieths.
FillLevels(path, i, width, height) ==
    LET left == 20 * ((i - 1) % width) - 10 * width
        top == 20 * ((i - 1) \div width) - 10 * height
        size == 9 * Min(width, height)
        nearest(lo) == Max(Max(lo, -(lo + 20)), 0)
        farthest(lo) == Max(Abs(lo), Abs(lo + 20))
    IN  IF path # "arc" THEN MaskLevels
        ELSE IF nearest(left) * nearest(left) + nearest(top) * nearest(top)
                    >= size * size
        THEN {0}
        ELSE IF farthest(left) * farthest(left) + farthest(top) * farthest(top)
                    <= size * size
        THEN {255}
        ELSE MaskLevels

\* generateShapeMask(shapeId, width, height): the getImageData of a canvas
\* on which the shape was filled in white over black.  The rasterisation is
\* the browser's: every mask within the levels of the filled path is a
\* possible result.
generateShapeMask(shapeId, width, height) ==
    GrayMasks([i \in 1..(width * height) |->
                  FillLevels(ShapePath(shapeId), i, width, height)])

\* a new ImageData holding the pixels d
NewImageData(h, d, width, height) ==
    [heap |-> Append(h, d),
     img  |-> [id |-> Len(h) + 1, width |-> width, height |-> height]]

\* invertMask(maskData)
invertMask(h, mask) ==
    ReturnCopy(h, mask,
        [i \in 1..Len(h[mask.id]) |->
            LET p == h[mask.id][i]
            IN  <<255 - p[1], 255 - p[2], 255 - p[3], p[4]>>])

\* featherMaskEdges(maskData, radius)
featherMaskEdges(h, mask, radius) ==
    LET data == h[mask.id]
        x(i) == (i - 1) % mask.width
        y(i) == (i - 1) \div mask.width
        window(i) == {j \in 1..Len(data) :
                        /\ Abs(x(j) - x(i)) <= radius
                        /\ Abs(y(j) - y(i)) <= radius}
        RECURSIVE sum(_)
        sum(S) == IF S = {} THEN 0
                  ELSE LET j == CHOOSE k \in S : TRUE
                       IN  data[j][1] + sum(S \ {j})
    IN  ReturnCopy(h, mask,
            [i \in 1..Len(data) |->
                LET avg == MathRound(sum(window(i)), Cardinality(window(i)))
                IN  <<avg, avg, avg, data[i][4]>>])

\* applyMask(imageData, maskData, maskPosition); scale in halves
applyMask(h, im, mask, maskPosition) ==
    LET data == h[im.id]
        scale2 == IF maskPosition.scale2 = 0 THEN 2 ELSE maskPosition.scale2
        \* Math.round((c - center) / scale + maskCenter)
        maskCoord(c, size, offset, maskSize) ==
            MathRound(2 * (2 * c - size - 2 * offset) + maskSize * scale2,
                      2 * scale2)
        maskValue(i) ==
            LET maskX == maskCoord((i - 1) % im.width, im.width,
                                   maskPosition.x, mask.width)
                maskY == maskCoord((i - 1) \div im.width, im.height,
                                   maskPosition.y, mask.height)
            IN  IF /\ maskX >= 0 /\ maskX < mask.width
                   /\ maskY >= 0 /\ maskY < mask.height
                THEN h[mask.id][maskY * mask.width + maskX + 1][1]
                ELSE 0
    IN  ReturnNew(h, im,
            [i \in 1..Len(data) |->
                <<data[i][1], data[i][2], data[i][3],
                  ToUint8Clamp(MathRound(data[i][4] * maskValue(i), 255), 1)>>])
            @@ [mask |-> mask]

\* applyShapeMask with its alpha truncated instead of rounded
applyShapeMask_Truncated(h, im, shapeMask, feather, invertOpt) ==
    LET withMask(m) ==
            ReturnCopy(m.heap, im,
                [i \in 1..Len(h[im.id]) |->
                    LET p == h[im.id][i]
                    IN  <<p[1], p[2], p[3],
                          (p[4] * m.heap[m.img.id][i][1]) \div 255>>])
                @@ [mask |-> m.img]
        feathered(m) ==
            IF feather > 0
            THEN With(featherMaskEdges(m.heap, m.img, feather), withMask)
            ELSE withMask(m)
        inverted(m) ==
            IF invertOpt THEN With(invertMask(m.heap, m.img), feathered)
            ELSE feathered(m)
    IN  With(NewImageData(h, shapeMask, im.width, im.height), inverted)

\* applyShapeMask(imageData, shapeId, { feather, invert }), shapeMask being
\* what generateShapeMask(shapeId, width, height) returned
applyShapeMask(h, im, shapeMask, feather, invertOpt) ==
    LET withMask(m) ==
            ReturnCopy(m.heap, im,
                [i \in 1..Len(h[im.id]) |->
                    LET p == h[im.id][i]
                    IN  <<p[1], p[2], p[3],
                          ToUint8Clamp(
                              MathRound(p[4] * m.heap[m.img.id][i][1], 255),
                              1)>>])
                @@ [mask |-> m.img]
        feathered(m) ==
            IF feather > 0
            THEN With(featherMaskEdges(m.heap, m.img, feather), withMask)
            ELSE withMask(m)
        inverted(m) ==
            IF invertOpt THEN With(invertMask(m.heap, m.img), feathered)
            ELSE feathered(m)
    IN  With(NewImageData(h, shapeMask, im.width, im.height), inverted)

----------------------------------------------------------------------------
(* contour.ts: extractContours, contourToSVG, dilateContour, erodeContour *)

\* the binary image of the grays read without alpha
Binarize_NoAlpha(data, thresholdArg) ==
    [i \in 1..Len(data) |->
        IF getGray_NoAlpha(data[i]) < thresholdArg * GrayDen THEN 1 ELSE 0]

\* binary[i] = gray < threshold ? 1 : 0
Binarize(data, thresholdArg) ==
    [i \in 1..Len(data) |->
        IF getGrayOnWhite(data[i]) < thresholdArg * GrayDen THEN 1 ELSE 0]

\* the in-bounds pixels within radius of pixel i in both directions
Window(i, width, height, radius) ==
    {j \in 1..(width * height) :
        /\ Abs(((j - 1) % width) - ((i - 1) % width)) <= radius
        /\ Abs(((j - 1) \div width) - ((i - 1) \div width)) <= radius}

extractContours(h, im, thresholdArg) ==
    LET mark(binary) ==
            ReturnNew(h, im,
                [i \in 1..Len(binary) |->
                    IF /\ Interior(i, im.width, im.height, 1)
                       /\ binary[i] = 1
                       /\ \/ binary[i - 1] = 0
                          \/ binary[i + 1] = 0
                          \/ binary[i - im.width] = 0
                          \/ binary[i + im.width] = 0
                    THEN <<0, 0, 0, 255>>
                    ELSE <<255, 255, 255, 255>>])
    IN  With(Binarize(h[im.id], thresholdArg), mark)

dilateBinary(binary, width, height, radius) ==
    [i \in 1..Len(binary) |->
        IF \E j \in Window(i, width, height, radius) : binary[j] = 1
        THEN 1 ELSE 0]

erodeBinary(binary, width, height, radius) ==
    [i \in 1..Len(binary) |->
        IF /\ Interior(i, width, height, radius)
           /\ \A j \in Window(i, width, height, radius) : binary[j] = 1
        THEN 1 ELSE 0]

dilateContour(h, im, radius) ==
    ReturnNew(h, im,
        [i \in 1..Len(h[im.id]) |->
            IF \E j \in Window(i, im.width, im.height, radius) :
                    h[im.id][j][1] < 128
            THEN <<0, 0, 0, 255>>
            ELSE <<255, 255, 255, 255>>])

erodeContour(h, im, radius) ==
    ReturnNew(h, im,
        [i \in 1..Len(h[im.id]) |->
            IF /\ Interior(i, im.width, im.height, radius)
               /\ \A j \in Window(i, im.width, im.height, radius) :
                    h[im.id][j][1] < 128
            THEN <<0, 0, 0, 255>>
            ELSE <<255, 255, 255, 255>>])

\* getMarchingSquaresSegments with the straight top/bottom case (3, 12)
\* joined to the top instead of the right
getMarchingSquaresSegments_Bent(x, y, config) ==
    LET midTop    == <<x * 2 + 1, y * 2>>
        midRight  == <<x * 2 + 2, y * 2 + 1>>
        midBottom == <<x * 2 + 1, y * 2 + 2>>
        midLeft   == <<x * 2, y * 2 + 1>>
    IN  CASE config \in {1, 14} -> <<<<midLeft, midBottom>>>>
          [] config \in {2, 13} -> <<<<midBottom, midRight>>>>
          [] config \in {3, 12} -> <<<<midLeft, midTop>>>>
          [] config \in {4, 11} -> <<<<midTop, midRight>>>>
          [] config = 5 -> <<<<midLeft, midTop>>, <<midBottom, midRight>>>>
          [] config \in {6, 9} -> <<<<midTop, midBottom>>>>
          [] config \in {7, 8} -> <<<<midLeft, midTop>>>>
          [] config = 10 -> <<<<midTop, midRight>>, <<midLeft, midBottom>>>>
          [] OTHER -> <<>>

\* getMarchingSquaresSegments with the segments of the two ambiguous cases
\* (5, 10) exchanged
getMarchingSquaresSegments_Exchanged(x, y, config) ==
    LET midTop    == <<x * 2 + 1, y * 2>>
        midRight  == <<x * 2 + 2, y * 2 + 1>>
        midBottom == <<x * 2 + 1, y * 2 + 2>>
        midLeft   == <<x * 2, y * 2 + 1>>
    IN  CASE config \in {1, 14} -> <<<<midLeft, midBottom>>>>
          [] config \in {2, 13} -> <<<<midBottom, midRight>>>>
          [] config \in {3, 12} -> <<<<midLeft, midRight>>>>
          [] config \in {4, 11} -> <<<<midTop, midRight>>>>
          [] config = 10 -> <<<<midLeft, midTop>>, <<midBottom, midRight>>>>
          [] config \in {6, 9} -> <<<<midTop, midBottom>>>>
          [] config \in {7, 8} -> <<<<midLeft, midTop>>>>
          [] config = 5 -> <<<<midTop, midRight>>, <<midLeft, midBottom>>>>
          [] OTHER -> <<>>

\* getMarchingSquaresSegments(x, y, config); the key "kx,ky" is <<kx, ky>>
getMarchingSquaresSegments(x, y, config) ==
    LET midTop    == <<x * 2 + 1, y * 2>>
        midRight  == <<x * 2 + 2, y * 2 + 1>>
        midBottom == <<x * 2 + 1, y * 2 + 2>>
        midLeft   == <<x * 2, y * 2 + 1>>
    IN  CASE config \in {1, 14} -> <<<<midLeft, midBottom>>>>
          [] config \in {2, 13} -> <<<<midBottom, midRight>>>>
          [] config \in {3, 12} -> <<<<midLeft, midRight>>>>
          [] config \in {4, 11} -> <<<<midTop, midRight>>>>
          [] config = 5 -> <<<<midLeft, midTop>>, <<midBottom, midRight>>>>
          [] config \in {6, 9} -> <<<<midTop, midBottom>>>>
          [] config \in {7, 8} -> <<<<midLeft, midTop>>>>
          [] config = 10 -> <<<<midTop, midRight>>, <<midLeft, midBottom>>>>
          [] OTHER -> <<>>

\* the edges <<a, b>> pushed by addEdge for the cells from `cell` on, in
\* raster order (edge k of the source is edge k + 1 here)
RECURSIVE ContourEdges(_, _, _, _)
ContourEdges(binary, width, height, cell) ==
    IF cell >= (width - 1) * (height - 1) THEN <<>>
    ELSE LET x == cell % (width - 1)
             y == cell \div (width - 1)
             tl == binary[y * width + x + 1]
             tr == binary[y * width + x + 2]
             bl == binary[(y + 1) * width + x + 1]
             br == binary[(y + 1) * width + x + 2]
             config == 8 * tl + 4 * tr + 2 * br + bl
         IN  getMarchingSquaresSegments(x, y, config)
                 \o ContourEdges(binary, width, height, cell + 1)

\* the keys of the adjacency Map in insertion order
RECURSIVE AdjacencyKeys(_, _, _)
AdjacencyKeys(edges, k, keys) ==
    IF k > Len(edges) THEN keys
    ELSE LET has(key, s) == \E n \in 1..Len(s) : s[n] = key
             withA == IF has(edges[k][1], keys) THEN keys
                      ELSE Append(keys, edges[k][1])
             withB == IF has(edges[k][2], withA) THEN withA
                      ELSE Append(withA, edges[k][2])
         IN  AdjacencyKeys(edges, k + 1, withB)

\* adjacency.get(key): { edgeIndex, other } in the order addEdge pushed them
Adjacency(edges, key) ==
    LET touching == SelectSeq([k \in 1..Len(edges) |-> k],
                        LAMBDA k : edges[k][1] = key \/ edges[k][2] = key)
    IN  [n \in 1..Len(touching) |->
            [edgeIndex |-> touching[n],
             other |-> IF edges[touching[n]][1] = key
                       THEN edges[touching[n]][2]
                       ELSE edges[touching[n]][1]]]

\* the inner loop of traceFrom: extend keys until no unused edge leaves the
\* current key or the start key is reached again
RECURSIVE Walk(_, _, _, _, _)
Walk(edges, used, keys, prevEdgeIndex, startKey) ==
    LET step(adj) ==
            LET unused == SelectSeq(adj, LAMBDA e : e.edgeIndex \notin used)
                onward == SelectSeq(unused,
                              LAMBDA e : e.edgeIndex # prevEdgeIndex)
                next == IF onward # <<>> THEN onward[1] ELSE unused[1]
            IN  IF unused = <<>>
                THEN [used |-> used, keys |-> keys, closed |-> FALSE]
                ELSE IF next.other = startKey
                THEN [used |-> used \cup {next.edgeIndex},
                      keys |-> Append(keys, next.other), closed |-> TRUE]
                ELSE Walk(edges, used \cup {next.edgeIndex},
                          Append(keys, next.other), next.edgeIndex, startKey)
    IN  With(Adjacency(edges, keys[Len(keys)]), step)

\* traceFrom(startKey) on st = [used, polylines]
RECURSIVE traceFrom(_, _, _)
traceFrom(edges, st, startKey) ==
    LET push(w) ==
            traceFrom(edges,
                [used |-> w.used,
                 polylines |-> Append(st.polylines,
                                   [keys |-> w.keys, closed |-> w.closed])],
                startKey)
    IN  IF \A k \in 1..Len(edges) :
                (edges[k][1] = startKey \/ edges[k][2] = startKey)
                    => k \in st.used
        THEN st
        ELSE With(Walk(edges, st.used, <<startKey>>, 0, startKey), push)

\* the sweep of adjacency.entries(): traceFrom at the keys whose degree is not 2
RECURSIVE SweepKeys(_, _, _, _)
SweepKeys(edges, st, keys, n) ==
    LET rest(s) == SweepKeys(edges, s, keys, n + 1)
    IN  IF n > Len(keys) THEN st
        ELSE IF Len(Adjacency(edges, keys[n])) # 2
        THEN With(traceFrom(edges, st, keys[n]), rest)
        ELSE rest(st)

\* the sweep of edges: traceFrom(edge.a) at the edges left unused
RECURSIVE SweepEdges(_, _, _)
SweepEdges(edges, st, k) ==
    LET rest(s) == SweepEdges(edges, s, k + 1)
    IN  IF k > Len(edges) THEN st
        ELSE IF k \notin st.used
        THEN With(traceFrom(edges, st, edges[k][1]), rest)
        ELSE rest(st)

\* the two sweeps with the sweep of the edges run first
TraceState_LeftoverFirst(edges) ==
    LET final(first) ==
            LET done(st) == [used |-> st.used, polylines |-> st.polylines,
                             firstSweep |-> Len(st.polylines)
                                                - Len(first.polylines)]
            IN  With(SweepKeys(edges, first, AdjacencyKeys(edges, 1, <<>>), 1),
                     done)
    IN  With(SweepEdges(edges, [used |-> {}, polylines |-> <<>>], 1), final)

\* the sweep of the keys alone
TraceState_EndpointsOnly(edges) ==
    LET done(st) == [used |-> st.used, polylines |-> st.polylines,
                     firstSweep |-> Len(st.polylines)]
    IN  With(SweepKeys(edges, [used |-> {}, polylines |-> <<>>],
                       AdjacencyKeys(edges, 1, <<>>), 1), done)

\* the two sweeps: the keys whose degree is not 2, then the edges left unused;
\* the used flags and the polylines when both have finished, firstSweep being
\* the number of polylines that the first sweep pushed
TraceState(edges) ==
    LET second(first) ==
            LET done(st) == [used |-> st.used, polylines |-> st.polylines,
                             firstSweep |-> Len(first.polylines)]
            IN  With(SweepEdges(edges, first, 1), done)
    IN  With(SweepKeys(edges, [used |-> {}, polylines |-> <<>>],
                       AdjacencyKeys(edges, 1, <<>>), 1), second)

TracePolylines(edges) == TraceState(edges).polylines

\* perpendicularDistance(point, lineStart, lineEnd), in units of the points:
\* sqrt(rank) when the line is a single point, rank / sqrt(len2) otherwise
perpendicularDistance(point, lineStart, lineEnd) ==
    LET dx == lineEnd[1] - lineStart[1]
        dy == lineEnd[2] - lineStart[2]
        px == point[1] - lineStart[1]
        py == point[2] - lineStart[2]
    IN  IF dx = 0 /\ dy = 0
        THEN [degenerate |-> TRUE, rank |-> px * px + py * py, len2 |-> 1]
        ELSE [degenerate |-> FALSE, rank |-> Abs(px * dy - py * dx),
              len2 |-> dx * dx + dy * dy]

\* maxDist > epsilon, for epsilon = epsilon10 / 10 and points in units of
\* 1 / unit: (10 rank / (epsilon10 unit))^2 > len2, by quotient and remainder
FartherThan(dist, epsilon10, unit) ==
    LET b == epsilon10 * unit
        q == (10 * dist.rank) \div b
        r == (10 * dist.rank) % b
    IN  IF dist.degenerate THEN 100 * dist.rank > b * b
        ELSE IF q * q > dist.len2 THEN TRUE
        ELSE IF (q + 1) * (q + 1) <= dist.len2 THEN FALSE
        ELSE 2 * q * r * b + r * r > (dist.len2 - q * q) * b * b

\* simplifyPath(points, epsilon) for points in units of 1 / unit and
\* epsilon = epsilon10 / 10
RECURSIVE simplifyPath(_, _, _)
simplifyPath(points, epsilon10, unit) ==
    LET n == Len(points)
        dist(i) == perpendicularDistance(points[i], points[1], points[n])
        inner == 2..(n - 1)
        maxIdx == CHOOSE i \in inner :
                    /\ \A j \in inner : dist(j).rank <= dist(i).rank
                    /\ \A j \in inner : j < i => dist(j).rank < dist(i).rank
        join(left) ==
            SubSeq(left, 1, Len(left) - 1)
                \o simplifyPath(SubSeq(points, maxIdx, n), epsilon10, unit)
    IN  IF n < 3 THEN points
        ELSE IF FartherThan(dist(maxIdx), epsilon10, unit)
        THEN With(simplifyPath(SubSeq(points, 1, maxIdx), epsilon10, unit), join)
        ELSE <<points[1], points[n]>>

\* chaikin(pts, closed, iterations): each iteration divides the unit by 4
RECURSIVE chaikin(_, _, _, _)
chaikin(pts, unit, closed, iterations) ==
    LET n == Len(pts)
        near(p0, p1) == <<3 * p0[1] + p1[1], 3 * p0[2] + p1[2]>>
        far(p0, p1) == <<p0[1] + 3 * p1[1], p0[2] + 3 * p1[2]>>
        cut(i) == IF i % 2 = 1
                  THEN near(pts[(i + 1) \div 2], pts[(((i + 1) \div 2) % n) + 1])
                  ELSE far(pts[i \div 2], pts[((i \div 2) % n) + 1])
        next == IF closed
                THEN [i \in 1..(2 * n) |-> cut(i)]
                ELSE <<<<4 * pts[1][1], 4 * pts[1][2]>>>>
                        \o [i \in 1..(2 * (n - 2)) |-> cut(i)]
                        \o <<<<4 * pts[n][1], 4 * pts[n][2]>>>>
    IN  IF iterations = 0 \/ n < 3 THEN [points |-> pts, unit |-> unit]
        ELSE chaikin(next, 4 * unit, closed, iterations - 1)

\* whether polylineLength of the points of keys is below minPathLength: a
\* segment between two keys is 1 long, or sqrt(2) / 2 when diagonal
ShorterThan(keys, minPathLength) ==
    LET diagonal(i) == keys[i][1] # keys[i + 1][1] /\ keys[i][2] # keys[i + 1][2]
        n2 == Cardinality({i \in 1..(Len(keys) - 1) : diagonal(i)})
        n1 == Len(keys) - 1 - n2
    IN  /\ minPathLength > n1
        /\ n2 * n2 < 2 * (minPathLength - n1) * (minPathLength - n1)

\* the subpath emitted for one polyline, as <<subpath>>, or <<>> when it is
\* skipped; formatNum gives a coordinate to two decimals, held in hundredths
Subpath(poly, options) ==
    LET isClosed == poly.closed
        eps == options.simplifyEpsilon10
        simplified(pts, unit) ==
            IF eps > 0 /\ Len(pts) > 2 THEN simplifyPath(pts, eps, unit)
            ELSE pts
        formatNum(v, unit) == MathRound(100 * v, unit)
        emit(s) ==
            IF Len(s.points) < 2 THEN <<>>
            ELSE <<[points |-> [i \in 1..Len(s.points) |->
                                   <<formatNum(s.points[i][1], s.unit),
                                     formatNum(s.points[i][2], s.unit)>>],
                    closed |-> isClosed]>>
        resimplify(s) ==
            With([points |-> simplified(s.points, s.unit), unit |-> s.unit],
                 emit)
        smooth(pts) ==
            IF options.smoothIterations > 0 /\ Len(pts) > 2
            THEN With(chaikin(pts, 2, isClosed, options.smoothIterations),
                      resimplify)
            ELSE emit([points |-> pts, unit |-> 2])
        simplify(pts) == With(simplified(pts, 2), smooth)
        rawPoints == poly.keys
        n == Len(rawPoints)
    IN  IF options.minPathLength > 0
           /\ ShorterThan(rawPoints, options.minPathLength)
        THEN <<>>
        ELSE IF isClosed /\ n > 2 /\ rawPoints[1] = rawPoints[n]
        THEN simplify(SubSeq(rawPoints, 1, n - 1))
        ELSE simplify(rawPoints)

\* the edges of contourToSVG with the first cell of the grid left out
ContourSegments_FirstCellSkipped(h, im, thresholdArg, options) ==
    With(Binarize(h[im.id], thresholdArg),
         LAMBDA binary : ContourEdges(binary, im.width, im.height, 1))

\* the edges of contourToSVG(imageData, threshold, options) once the loop over
\* the cells has called addEdge for every segment
ContourSegments(h, im, thresholdArg, options) ==
    LET width == im.width
        height == im.height
        radius == Min(50, Abs(options.offsetPx))
        march(binary) == ContourEdges(binary, width, height, 0)
        morph(binary) ==
            IF radius > 0
            THEN With(IF options.offsetPx > 0
                      THEN dilateBinary(binary, width, height, radius)
                      ELSE erodeBinary(binary, width, height, radius), march)
            ELSE march(binary)
    IN  With(Binarize(h[im.id], thresholdArg), morph)

\* contourToSVG(imageData, threshold, options): the viewBox and the subpaths
\* of the path's d attribute, in order
contourToSVG(h, im, thresholdArg, options) ==
    LET RECURSIVE emitAll(_, _)
        emitAll(polylines, k) ==
            IF k > Len(polylines) THEN <<>>
            ELSE Subpath(polylines[k], options) \o emitAll(polylines, k + 1)
        svg(polylines) ==
            [viewBox |-> <<im.width, im.height>>,
             subpaths |-> emitAll(polylines, 1)]
        trace(edges) == With(TracePolylines(edges), svg)
    IN  With(ContourSegments(h, im, thresholdArg, options), trace)

----------------------------------------------------------------------------
(* Inputs *)

\* the widths and heights of the images of at most n pixels
Dims(n) == {d \in (1..n) \X (1..n) : d[1] * d[2] <= n}

\* every image of at most n pixels whose pixels come from palette
Images(palette, n) ==
    UNION {[width : {d[1]}, height : {d[2]},
            data : [1..(d[1] * d[2]) -> palette]] : d \in Dims(n)}

\* the state in which image is about to be passed to an engine function
Start(image) ==
    /\ input = [id |-> 1, width |-> image.width, height |-> image.height]
    /\ orig = image.data
    /\ heap = <<image.data>>
    /\ call = [fn |-> "none"]
    /\ res = [kind |-> "none"]

\* the state after the call fn returned the buffer r.img
Returned(fn, r) ==
    /\ call.fn = "none"
    /\ call' = fn
    /\ \E ret \in {r} :
          /\ heap' = ret.heap
          /\ res' = [kind |-> "buffer", img |-> ret.img]
    /\ UNCHANGED <<input, orig>>

\* the pixels of the returned buffer
Out == heap[res.img.id]

----------------------------------------------------------------------------
(* The dithering algorithms on every small image *)

Black == <<0, 0, 0, 255>>
White == <<255, 255, 255, 255>>

DitherPalette == {Black, White, <<200, 100, 50, 128>>}

\* single pixels over a wider range of channel and alpha values
WidePixels ==
    {p \in {0, 100, 255} \X {0, 150, 255} \X {0, 255} \X {0, 1, 128, 254, 255} :
        TRUE}

DitherImages ==
    Images(DitherPalette, DitherMaxPixels) \cup Images(WidePixels, 1)

InitDither == \E image \in DitherImages : Start(image)

CallFloydSteinberg ==
    Returned([fn |-> "floydSteinberg"], floydSteinberg(heap, input))

CallJarvisJudiceNinke ==
    Returned([fn |-> "jarvisJudiceNinke"], jarvisJudiceNinke(heap, input))

CallStucki == Returned([fn |-> "stucki"], stucki(heap, input))

CallAtkinson == Returned([fn |-> "atkinson"], atkinson(heap, input))

CallSierra == Returned([fn |-> "sierra"], sierra(heap, input))

CallSierraTwoRow == Returned([fn |-> "sierraTwoRow"], sierraTwoRow(heap, input))

CallBurkes == Returned([fn |-> "burkes"], burkes(heap, input))

CallBayerOrdered == Returned([fn |-> "bayerOrdered"], bayerOrdered(heap, input))

CallBayerOrdered4x4 ==
    Returned([fn |-> "bayerOrdered4x4"], bayerOrdered4x4(heap, input))

NextDither ==
    \/ CallFloydSteinberg
    \/ CallJarvisJudiceNinke
    \/ CallStucki
    \/ CallAtkinson
    \/ CallSierra
    \/ CallSierraTwoRow
    \/ CallBurkes
    \/ CallBayerOrdered
    \/ CallBayerOrdered4x4

SpecDither == InitDither /\ [][NextDither]_vars

DitherNames == ErrorDiffusionNames \cup {"bayerOrdered", "bayerOrdered4x4"}

\* C1: after any of the nine dithering algorithms every output pixel has
\* R = G = B and that value is 0 or 255.
C1_DitherIsBinary ==
    (call.fn \in DitherNames /\ res.kind = "buffer") =>
        \A i \in 1..Len(Out) :
            /\ Out[i][1] \in {0, 255}
            /\ Out[i][2] = Out[i][1]
            /\ Out[i][3] = Out[i][1]

\* a dithering algorithm has returned for an input holding a pixel that is
\* neither black nor white and has three different channels
C1_Witness ==
    /\ call.fn \in DitherNames
    /\ res.kind = "buffer"
    /\ \E i \in 1..Len(orig) : orig[i] = <<200, 100, 50, 128>>
    /\ \E i \in 1..Len(Out) : Out[i][1] = 0
    /\ \E i \in 1..Len(Out) : Out[i][1] = 255

\* C8: for an opaque image whose pixels are each pure black or pure white,
\* each of the seven error diffusion algorithms returns the image unchanged.
C8_BimodalUnchanged ==
    (/\ call.fn \in ErrorDiffusionNames
     /\ res.kind = "buffer"
     /\ \A i \in 1..Len(orig) : orig[i] \in {Black, White})
        => Out = orig

\* an error diffusion algorithm has returned for a black and white image of
\* at least two rows and two columns in which both colours occur
C8_Witness ==
    /\ call.fn \in ErrorDiffusionNames
    /\ res.kind = "buffer"
    /\ input.width >= 2
    /\ input.height >= 2
    /\ \A i \in 1..Len(orig) : orig[i] \in {Black, White}
    /\ \E i \in 1..Len(orig) : orig[i] = Black
    /\ \E i \in 1..Len(orig) : orig[i] = White

\* the composite-on-white gray of the specification, as a numerator over
\* GrayDen: the weights applied to channel * alpha / 255 + 255 * (1 - alpha / 255)
CompositeOnWhite(p) ==
    299 * (p[1] * p[4] + 255 * (255 - p[4]))
    + 587 * (p[2] * p[4] + 255 * (255 - p[4]))
    + 114 * (p[3] * p[4] + 255 * (255 - p[4]))

----------------------------------------------------------------------------
(* The adjustments and the dithering algorithms on every small image *)

TonalPalette == {<<200, 100, 50, 128>>, <<10, 240, 30, 255>>}

TonalImages == Images(TonalPalette, TonalMaxPixels) \cup Images(WidePixels, 1)

InitTonal == \E image \in TonalImages : Start(image)

CallToGrayscale == Returned([fn |-> "toGrayscale"], toGrayscale(heap, input))

CallAdjustBrightness ==
    \E amount \in {0, 40, -255} :
        Returned([fn |-> "adjustBrightness", amount |-> amount],
                 adjustBrightness(heap, input, amount))

CallAdjustContrast ==
    \E amount \in {0, 40, -100} :
        Returned([fn |-> "adjustContrast", amount |-> amount],
                 adjustContrast(heap, input, amount))

CallAdjustGamma ==
    \E gamma100 \in {100, 50, 110} :
        Returned([fn |-> "adjustGamma", gamma100 |-> gamma100],
                 adjustGamma(heap, input, gamma100))

CallInvert == Returned([fn |-> "invert"], invert(heap, input))

\* unsharpMask with radius 1, 2 and 0.5
CallUnsharpMask ==
    \E a \in {<<2, 80, 0>>, <<4, 150, 10>>, <<1, 100, 0>>} :
        Returned([fn |-> "unsharpMask", radius2 |-> a[1], amount |-> a[2],
                  threshold |-> a[3]],
                 unsharpMask(heap, input, a[1], a[2], a[3]))

CallEdgeEnhance ==
    \E strength10 \in {5, 12} :
        Returned([fn |-> "edgeEnhance", strength10 |-> strength10],
                 edgeEnhance(heap, input, strength10))

CallDenoise ==
    \E strength \in {0, 25} :
        Returned([fn |-> "denoise", strength |-> strength],
                 denoise(heap, input, strength))

CallAutoAdjust == Returned([fn |-> "autoAdjust"], autoAdjust(heap, input))

CallAdjustLevels ==
    \E a \in {<<0, 255>>, <<50, 200>>, <<200, 50>>} :
        Returned([fn |-> "adjustLevels", args |-> a],
                 adjustLevels(heap, input, a[1], a[2]))

CallThreshold ==
    \E t \in {0, 128} :
        Returned([fn |-> "threshold", thresholdValue |-> t],
                 threshold(heap, input, t))

CallColorCorrection ==
    \E a \in {<<20, 10>>, <<30, 15>>} :
        Returned([fn |-> "colorCorrection", args |-> a],
                 colorCorrection(heap, input, a[1], a[2]))

CallSketchEffect == Returned([fn |-> "sketchEffect"], sketchEffect(heap, input))

CallDithering ==
    \E name \in DitherNames :
        Returned([fn |-> name], ditheringAlgorithms(name, heap, input))

NextTonal ==
    \/ CallToGrayscale
    \/ CallAdjustBrightness
    \/ CallAdjustContrast
    \/ CallAdjustGamma
    \/ CallInvert
    \/ CallUnsharpMask
    \/ CallEdgeEnhance
    \/ CallDenoise
    \/ CallAutoAdjust
    \/ CallAdjustLevels
    \/ CallThreshold
    \/ CallColorCorrection
    \/ CallSketchEffect
    \/ CallDithering

SpecTonal == InitTonal /\ [][NextTonal]_vars

AdjustmentNames ==
    {"toGrayscale", "adjustBrightness", "adjustContrast", "adjustGamma",
     "invert", "unsharpMask", "edgeEnhance", "denoise", "autoAdjust",
     "adjustLevels", "threshold", "colorCorrection", "sketchEffect"}

\* C2: every adjustment and every dithering algorithm returns a buffer of the
\* input's width and height whose alpha at every pixel position, border
\* pixels included, is the input's alpha at that position.
C2_AlphaPreserved ==
    (call.fn \in AdjustmentNames \cup DitherNames /\ res.kind = "buffer") =>
        /\ res.img.width = input.width
        /\ res.img.height = input.height
        /\ Len(Out) = Len(orig)
        /\ \A i \in 1..Len(orig) : Out[i][4] = orig[i][4]

\* edgeEnhance or denoise has changed the centre of a 3 x 3 image whose
\* pixels do not all have the same alpha
C2_Witness ==
    /\ call.fn \in {"edgeEnhance", "denoise"}
    /\ res.kind = "buffer"
    /\ input.width = 3
    /\ input.height = 3
    /\ Out[5] # orig[5]
    /\ \E i \in 1..9 : orig[i][4] # orig[5][4]

\* C9: adjustBrightness(buf, 0), adjustContrast(buf, 0) and
\* adjustGamma(buf, 1.0) return a buffer pixel-for-pixel equal to buf, and the
\* lookup table built for gamma = 1.0 maps every i in 0..255 to i.
C9_NoOpParameters ==
    /\ (/\ res.kind = "buffer"
        /\ \/ call = [fn |-> "adjustBrightness", amount |-> 0]
           \/ call = [fn |-> "adjustContrast", amount |-> 0]
           \/ call = [fn |-> "adjustGamma", gamma100 |-> 100])
          => Out = orig
    /\ call = [fn |-> "adjustGamma", gamma100 |-> 100] =>
          \A i \in 0..255 : lookupTable(100, i) = i

\* adjustGamma(buf, 1.0) has returned for an image of two colours
C9_Witness ==
    /\ call = [fn |-> "adjustGamma", gamma100 |-> 100]
    /\ res.kind = "buffer"
    /\ \E i \in 1..Len(orig) : orig[i] # orig[1]

----------------------------------------------------------------------------
(* applyPreset with catalogue ids and with other strings *)

CatalogueIds ==
    {"photoRealism", "trueTone", "deepBurn", "softDetail", "stoneSlate",
     "glassAcrylic", "forgiving", "edgePop", "highContrast", "pencilSketch"}

OtherIds ==
    {"not-a-real-preset", "", "PhotoRealism", "floydSteinberg", "constructor",
     "toString", "__proto__"}

PresetImages ==
    Images(TonalPalette, PresetMaxPixels) \cup Images(WidePixels, 1)

InitPreset == \E image \in PresetImages : Start(image)

\* the state after applyPreset(input, presetName) returned or threw
CallApplyPreset ==
    /\ call.fn = "none"
    /\ \E presetName \in CatalogueIds \cup OtherIds :
        \E r \in {applyPreset(heap, input, presetName)} :
        /\ call' = [fn |-> "applyPreset", presetName |-> presetName]
        /\ heap' = r.heap
        /\ res' = IF r.threw = "nothing"
                  THEN [kind |-> "buffer", img |-> r.img, steps |-> r.steps]
                  ELSE [kind |-> "error", error |-> r.threw, steps |-> r.steps]
        /\ UNCHANGED <<input, orig>>

NextPreset == CallApplyPreset

SpecPreset == InitPreset /\ [][NextPreset]_vars

\* C3: for every presetId that is not one of the ten catalogue ids,
\* applyPreset throws the 'Unknown preset' error before running any
\* transform, and never returns a buffer.
C3_UnknownPresetFailsAtLookup ==
    (call.fn = "applyPreset" /\ call.presetName \notin CatalogueIds) =>
        /\ res.kind = "error"
        /\ res.error = "Error: Unknown preset"
        /\ res.steps = <<>>

\* the steps that run between toGrayscale and the dithering for the
\* adjustments adj, in the order of the pipeline
EnabledSteps(adj) ==
    LET flag(name) == name \in DOMAIN adj /\ adj[name] = TRUE
        set(name) == name \in DOMAIN adj /\ adj[name] # 0
        order == <<[step |-> "autoAdjust", on |-> flag("autoAdjust")],
                   [step |-> "colorCorrection", on |-> flag("colorCorrection")],
                   [step |-> "denoise", on |-> set("denoise")],
                   [step |-> "adjustGamma",
                    on |-> set("gamma") /\ adj.gamma # 100],
                   [step |-> "adjustBrightness", on |-> set("brightness")],
                   [step |-> "adjustContrast", on |-> set("contrast")],
                   [step |-> "edgeEnhance", on |-> set("edgeEnhance")],
                   [step |-> "unsharpMask", on |-> set("sharpenAmount")]>>
        enabled == SelectSeq(order, LAMBDA o : o.on)
    IN  [n \in 1..Len(enabled) |-> enabled[n].step]

\* C18: for a catalogue preset other than pencilSketch applyPreset runs
\* toGrayscale, then those of autoAdjust, colorCorrection, denoise,
\* adjustGamma, adjustBrightness, adjustContrast, edgeEnhance, unsharpMask
\* whose parameter is present and not zero (gamma also not 1.0), in that
\* order, then the preset's dithering algorithm once; pencilSketch runs
\* toGrayscale, sketchEffect and its dithering algorithm; and the buffer
\* returned is black and white and of the input's dimensions.
C18_PresetPipelineOrder ==
    (call.fn = "applyPreset" /\ call.presetName \in CatalogueIds) =>
        /\ res.kind = "buffer"
        /\ res.steps =
              <<"toGrayscale">>
                  \o (IF call.presetName = "pencilSketch"
                      THEN <<"sketchEffect">>
                      ELSE EnabledSteps(presets[call.presetName].adjustments))
                  \o <<presets[call.presetName].ditheringAlgorithm>>
        /\ presets[call.presetName].ditheringAlgorithm \in DitherNames
        /\ res.img.width = input.width
        /\ res.img.height = input.height
        /\ Len(Out) = input.width * input.height
        /\ \A i \in 1..Len(Out) :
              /\ Out[i][1] \in {0, 255}
              /\ Out[i][2] = Out[i][1]
              /\ Out[i][3] = Out[i][1]

\* stoneSlate ran six transforms on an image of four pixels
C18_Witness ==
    /\ call.fn = "applyPreset"
    /\ call.presetName = "stoneSlate"
    /\ Len(orig) = PresetMaxPixels
    /\ res.kind = "buffer"
    /\ res.steps = <<"toGrayscale", "denoise", "adjustContrast", "edgeEnhance",
                     "unsharpMask", "stucki">>

----------------------------------------------------------------------------
(* cannyEdgeDetection on uniform images and on small two-level images *)

\* whole gray levels: opaque grays and a transparent pixel
CannyLevels ==
    {<<0, 0, 0, 255>>, <<128, 128, 128, 255>>, <<255, 255, 255, 255>>,
     <<90, 20, 60, 0>>}

UniformImages ==
    {[width |-> w, height |-> h5, data |-> [i \in 1..(w * h5) |-> p]] :
        w \in 1..CannyMaxSide, h5 \in 1..CannyMaxSide, p \in CannyLevels}

CannyImages ==
    UniformImages
        \cup {im \in Images({Black, White}, CannyMaxPixels) :
                im.width >= 3 /\ im.height >= 3}

ThresholdPairs == {<<50, 150>>, <<100, 200>>, <<20, 60>>, <<0, 0>>}

InitCanny == \E image \in CannyImages : Start(image)

CallCannyEdgeDetection ==
    \E t \in ThresholdPairs :
        Returned([fn |-> "cannyEdgeDetection",
                  lowThreshold |-> t[1], highThreshold |-> t[2]],
                 cannyEdgeDetection(heap, input, t[1], t[2]))

NextCanny == CallCannyEdgeDetection

SpecCanny == InitCanny /\ [][NextCanny]_vars

Uniform(data) == \A i \in 1..Len(data) : data[i] = data[1]

\* C5: cannyEdgeDetection of a uniform image is all white and opaque (no
\* pixel is classified as an edge).  Stated here for the positive threshold
\* pairs only; the claim is for every pair, and with highThreshold <= 0 every
\* pixel of every image is an edge.
C5_UniformImageHasNoEdges ==
    (/\ call.fn = "cannyEdgeDetection"
     /\ res.kind = "buffer"
     /\ call.lowThreshold > 0
     /\ call.highThreshold > 0
     /\ Uniform(orig)) =>
        \A i \in 1..Len(Out) : Out[i] = White

----------------------------------------------------------------------------
(* applyMask and applyShapeMask on every small image and mask *)

MaskImages == Images(TonalPalette, MaskMaxPixels)

MaskPositions ==
    {[x |-> 0, y |-> 0, scale2 |-> 2], [x |-> 1, y |-> 0, scale2 |-> 2],
     [x |-> 0, y |-> 0, scale2 |-> 4], [x |-> 0, y |-> -1, scale2 |-> 0]}

DefaultMaskPosition == [x |-> 0, y |-> 0, scale2 |-> 2]

ShapeIds == {"circle", "diamond", "not-a-shape", "Circle", ""}

InitMask == \E image \in MaskImages : Start(image)

\* the state after a masking call returned r.img, having used the mask r.mask
ReturnedMasked(fn, r) ==
    /\ call.fn = "none"
    /\ call' = fn
    /\ \E ret \in {r} :
          /\ heap' = ret.heap
          /\ res' = [kind |-> "buffer", img |-> ret.img, mask |-> ret.mask]
    /\ UNCHANGED <<input, orig>>

\* applyMask with a mask of the image's dimensions or a one pixel mask
CallApplyMask ==
    /\ call.fn = "none"
    /\ \E d \in {<<input.width, input.height>>, <<1, 1>>},
          maskPosition \in MaskPositions :
        \E maskData \in GrayMasks([i \in 1..(d[1] * d[2]) |-> MaskLevels]) :
            \E m \in {NewImageData(heap, maskData, d[1], d[2])} :
                ReturnedMasked([fn |-> "applyMask", maskPosition |-> maskPosition],
                               applyMask(m.heap, input, m.img, maskPosition))

CallApplyShapeMask ==
    /\ call.fn = "none"
    /\ \E shapeId \in ShapeIds, feather \in {0, 1}, invertOpt \in BOOLEAN :
        \E shapeMask \in generateShapeMask(shapeId, input.width, input.height) :
            ReturnedMasked([fn |-> "applyShapeMask", shapeId |-> shapeId,
                            feather |-> feather, invert |-> invertOpt],
                           applyShapeMask(heap, input, shapeMask, feather, invertOpt))

\* generateShapeMask(shapeId, input.width, input.height)
CallGenerateShapeMask ==
    /\ call.fn = "none"
    /\ \E shapeId \in ShapeIds :
        \E shapeMask \in generateShapeMask(shapeId, input.width, input.height) :
            /\ call' = [fn |-> "generateShapeMask", shapeId |-> shapeId]
            /\ heap' = Append(heap, shapeMask)
            /\ res' = [kind |-> "buffer",
                       img |-> [id |-> Len(heap) + 1, width |-> input.width,
                                height |-> input.height],
                       path |-> ShapePath(shapeId)]
            /\ UNCHANGED <<input, orig>>

NextMask == CallApplyMask \/ CallApplyShapeMask \/ CallGenerateShapeMask

SpecMask == InitMask /\ [][NextMask]_vars

\* C7: applyMask (mask of the image's dimensions, default position and scale)
\* and applyShapeMask leave R, G, B unchanged and set each alpha to
\* round(inputAlpha * maskRed / 255): mask 255 keeps the alpha, mask 0 zeroes
\* it, and the output alpha is never greater than the input alpha.
C7_MaskScalesAlpha ==
    (/\ res.kind = "buffer"
     /\ \/ call.fn = "applyShapeMask"
        \/ /\ call.fn = "applyMask"
           /\ call.maskPosition = DefaultMaskPosition
           /\ res.mask.width = input.width
           /\ res.mask.height = input.height) =>
        \A i \in 1..Len(orig) :
            LET maskRed == heap[res.mask.id][i][1]
                inputAlpha == orig[i][4]
            IN  /\ Out[i][1] = orig[i][1]
                /\ Out[i][2] = orig[i][2]
                /\ Out[i][3] = orig[i][3]
                /\ Out[i][4] = (2 * inputAlpha * maskRed + 255) \div 510
                /\ maskRed = 255 => Out[i][4] = inputAlpha
                /\ maskRed = 0 => Out[i][4] = 0
                /\ Out[i][4] <= inputAlpha

\* a feathered, inverted shape mask with a gray pixel that lowered an alpha
C7_Witness ==
    /\ res.kind = "buffer"
    /\ call.fn = "applyShapeMask"
    /\ call.feather = 1
    /\ call.invert
    /\ \E i \in 1..Len(orig) :
          /\ heap[res.mask.id][i][1] \notin {0, 255}
          /\ Out[i][4] > 0
          /\ Out[i][4] < orig[i][4]
          /\ Out[i][4] * 255 > orig[i][4] * heap[res.mask.id][i][1]

\* C13: for a shapeId that is not one of the eight catalogue ids,
\* generateShapeMask raises nothing, fills the path it fills for 'circle' and
\* returns a mask that generateShapeMask('circle', w, h) returns; and
\* applyShapeMask with such an id returns a buffer that it returns with
\* 'circle' and the same options.
C13_UnknownShapeIsCircle ==
    /\ (call.fn = "generateShapeMask" /\ call.shapeId \notin predefinedMasks) =>
          /\ res.kind = "buffer"
          /\ res.path = ShapePath("circle")
          /\ Out \in generateShapeMask("circle", input.width, input.height)
    /\ (call.fn = "applyShapeMask" /\ call.shapeId \notin predefinedMasks) =>
          /\ res.kind = "buffer"
          /\ \E shapeMask \in generateShapeMask("circle", input.width,
                                                input.height) :
                LET r == applyShapeMask(<<orig>>, input, shapeMask,
                                        call.feather, call.invert)
                IN  Out = r.heap[r.img.id]

\* for an unknown id on a strip of three pixels the end pixels of the mask,
\* which the disc misses, are black
C13_Witness ==
    /\ call.fn = "generateShapeMask"
    /\ call.shapeId = "not-a-shape"
    /\ input.width = 1 /\ input.height = 3
    /\ res.path = "arc"
    /\ Out[1][1] = 0 /\ Out[3][1] = 0

----------------------------------------------------------------------------
(* The contour functions on square images and on every small two-level image *)

\* a dark pixel (gray 21) and two lighter ones (gray 255)
DarkPixels == {Black, <<10, 20, 55, 255>>}
LightPixels == {White, <<90, 20, 60, 0>>}

\* the images with one filled n x n square of a dark pixel whose top left
\* corner is (x0, y0), and a lighter pixel everywhere else, border included
SquareImages ==
    {[width |-> d[1], height |-> d[2],
      data |-> [i \in 1..(d[1] * d[2]) |->
                  IF /\ (i - 1) % d[1] \in d[4]..(d[4] + d[3] - 1)
                     /\ (i - 1) \div d[1] \in d[5]..(d[5] + d[3] - 1)
                  THEN d[6] ELSE d[7]]] :
        d \in {e \in (3..ContourMaxSide) \X (3..ContourMaxSide)
                        \X (1..(ContourMaxSide - 2))
                        \X (1..(ContourMaxSide - 2))
                        \X (1..(ContourMaxSide - 2))
                        \X DarkPixels \X LightPixels :
                  /\ e[4] + e[3] < e[1]
                  /\ e[5] + e[3] < e[2]}}

ContourImages == SquareImages \cup Images({Black, White}, ContourMaxPixels)

DefaultContourOptions ==
    [simplifyEpsilon10 |-> 10, smoothIterations |-> 0, minPathLength |-> 0,
     offsetPx |-> 0]

ContourOptions ==
    {DefaultContourOptions,
     [DefaultContourOptions EXCEPT !.simplifyEpsilon10 = 0],
     [DefaultContourOptions EXCEPT !.simplifyEpsilon10 = 0,
                                   !.smoothIterations = 1],
     [DefaultContourOptions EXCEPT !.smoothIterations = 2],
     [DefaultContourOptions EXCEPT !.simplifyEpsilon10 = 0,
                                   !.minPathLength = 3],
     [DefaultContourOptions EXCEPT !.simplifyEpsilon10 = 0, !.offsetPx = 1],
     [DefaultContourOptions EXCEPT !.simplifyEpsilon10 = 0, !.offsetPx = -1]}

InitContour == \E image \in ContourImages : Start(image)

CallExtractContours ==
    Returned([fn |-> "extractContours", threshold |-> 128],
             extractContours(heap, input, 128))

CallContourToSVG ==
    \E options \in ContourOptions :
        /\ call.fn = "none"
        /\ call' = [fn |-> "contourToSVG", threshold |-> 128,
                    options |-> options]
        /\ res' = [kind |-> "svg",
                   svg |-> contourToSVG(heap, input, 128, options)]
        /\ UNCHANGED <<input, orig, heap>>

CallDilateContour ==
    \E radius \in {1, 2} :
        Returned([fn |-> "dilateContour", radius |-> radius],
                 dilateContour(heap, input, radius))

CallErodeContour ==
    \E radius \in {1, 2} :
        Returned([fn |-> "erodeContour", radius |-> radius],
                 erodeContour(heap, input, radius))

NextContour ==
    \/ CallExtractContours
    \/ CallContourToSVG
    \/ CallDilateContour
    \/ CallErodeContour

SpecContour == InitContour /\ [][NextContour]_vars

\* the columns and the rows of the pixels darker than the threshold
DarkColumns == {(i - 1) % input.width : i \in {j \in 1..Len(orig) :
                    Binarize(orig, call.threshold)[j] = 1}}
DarkRows == {(i - 1) \div input.width : i \in {j \in 1..Len(orig) :
                    Binarize(orig, call.threshold)[j] = 1}}

\* the dark pixels of the input are one filled N x N square with lighter
\* pixels on every side
SingleDarkSquare ==
    LET lo(S) == CHOOSE v \in S : \A u \in S : v <= u
        hi(S) == CHOOSE v \in S : \A u \in S : v >= u
    IN  /\ DarkColumns # {}
        /\ Cardinality(DarkColumns) = Cardinality(DarkRows)
        /\ hi(DarkColumns) - lo(DarkColumns) + 1 = Cardinality(DarkColumns)
        /\ hi(DarkRows) - lo(DarkRows) + 1 = Cardinality(DarkRows)
        /\ \A x \in DarkColumns, y \in DarkRows :
              Binarize(orig, call.threshold)[y * input.width + x + 1] = 1
        /\ lo(DarkColumns) >= 1 /\ hi(DarkColumns) <= input.width - 2
        /\ lo(DarkRows) >= 1 /\ hi(DarkRows) <= input.height - 2

\* twice the distance (squared) from an emitted vertex, in hundredths of a
\* pixel, to the boundary of the square through the centres of the outermost
\* dark pixels
VertexToSquare(v) ==
    LET lo(S) == CHOOSE c \in S : \A u \in S : c <= u
        hi(S) == CHOOSE c \in S : \A u \in S : c >= u
        outside(c, S) == Max(Max(100 * lo(S) - c, c - 100 * hi(S)), 0)
        inside(c, S) == Min(c - 100 * lo(S), 100 * hi(S) - c)
        ex == outside(v[1], DarkColumns)
        ey == outside(v[2], DarkRows)
        depth == Min(inside(v[1], DarkColumns), inside(v[2], DarkRows))
    IN  IF ex = 0 /\ ey = 0 THEN depth * depth ELSE ex * ex + ey * ey

\* C10: contourToSVG of an image holding a single filled N x N dark square
\* surrounded by lighter pixels, with simplifyEpsilon = 0 and
\* smoothIterations = 0, emits exactly one subpath; it is closed, every vertex
\* is within half a pixel of the square's boundary, and each of the four
\* corners of the square has a vertex within half a pixel of it.
C10_SquareIsOneClosedPath ==
    (/\ call.fn = "contourToSVG"
     /\ call.options = [DefaultContourOptions EXCEPT !.simplifyEpsilon10 = 0]
     /\ SingleDarkSquare) =>
        /\ Len(res.svg.subpaths) = 1
        /\ res.svg.subpaths[1].closed
        /\ \A n \in 1..Len(res.svg.subpaths[1].points) :
              VertexToSquare(res.svg.subpaths[1].points[n]) <= 50 * 50
        /\ \A x \in {c \in DarkColumns : \A u \in DarkColumns : c <= u}
                        \cup {c \in DarkColumns : \A u \in DarkColumns : c >= u},
              y \in {c \in DarkRows : \A u \in DarkRows : c <= u}
                        \cup {c \in DarkRows : \A u \in DarkRows : c >= u} :
              \E n \in 1..Len(res.svg.subpaths[1].points) :
                  LET v == res.svg.subpaths[1].points[n]
                  IN  (v[1] - 100 * x) * (v[1] - 100 * x)
                          + (v[2] - 100 * y) * (v[2] - 100 * y) <= 50 * 50

\* a 3 x 3 dark square in a 5 x 5 image traced as one closed path of twelve
\* vertices
C10_Witness ==
    /\ call.fn = "contourToSVG"
    /\ call.options = [DefaultContourOptions EXCEPT !.simplifyEpsilon10 = 0]
    /\ SingleDarkSquare
    /\ Cardinality(DarkColumns) = 3
    /\ Len(res.svg.subpaths) = 1
    /\ res.svg.subpaths[1].closed
    /\ Len(res.svg.subpaths[1].points) = 12

----------------------------------------------------------------------------
(* Every engine function on every small image *)

\* a dark opaque pixel and a half transparent light one, of whole gray levels
EnginePalette == {<<10, 20, 55, 255>>, <<255, 255, 255, 128>>}

EngineImages == Images(EnginePalette, EngineMaxPixels)

InitEngine == \E image \in EngineImages : Start(image)

CallInvertMask == Returned([fn |-> "invertMask"], invertMask(heap, input))

NextEngine ==
    \/ NextTonal
    \/ NextPreset
    \/ NextCanny
    \/ NextContour
    \/ NextMask
    \/ CallInvertMask

SpecEngine == InitEngine /\ [][NextEngine]_vars

\* C4: no engine function writes to its input buffer (after the call the
\* input's data is what it was before), and the data of a returned buffer is
\* an array allocated during the call, never the input's array.
C4_InputUntouched ==
    call.fn # "none" =>
        /\ heap[input.id] = orig
        /\ res.kind = "buffer" =>
              /\ res.img.id # input.id
              /\ res.img.id > 1
              /\ res.img.id <= Len(heap)

\* adjustLevels returned pixels that differ from the input's, in another array
C4_Witness ==
    /\ call.fn = "adjustLevels"
    /\ res.kind = "buffer"
    /\ res.img.id # input.id
    /\ Out # orig
    /\ heap[input.id] = orig

----------------------------------------------------------------------------
(* Every engine function on degenerate buffers *)

DegenerateMaxSide == 5
DegenerateMaxPixels == 4

\* pixels of alpha 0
TransparentPixels == {<<0, 0, 0, 0>>, <<200, 100, 50, 0>>}

\* 1 x N and N x 1 strips (the single pixel among them), uniform images and
\* fully transparent images
DegenerateImages ==
    {im \in Images(EnginePalette, DegenerateMaxSide) :
        im.width = 1 \/ im.height = 1}
        \cup {[width |-> w, height |-> h5, data |-> [i \in 1..(w * h5) |-> p]] :
                w \in 1..DegenerateMaxSide, h5 \in 1..DegenerateMaxSide,
                p \in EnginePalette \cup TransparentPixels}
        \cup Images(TransparentPixels, DegenerateMaxPixels)

InitDegenerate == \E image \in DegenerateImages : Start(image)

NextDegenerate ==
    \/ NextTonal
    \/ NextPreset
    \/ NextCanny
    \/ NextContour

SpecDegenerate == InitDegenerate /\ [][NextDegenerate]_vars

Degenerate ==
    \/ input.width = 1
    \/ input.height = 1
    \/ Uniform(orig)
    \/ \A i \in 1..Len(orig) : orig[i][4] = 0

\* C11: on a degenerate but valid buffer (a strip, a single pixel, a uniform
\* or a fully transparent image) every engine function, applyPreset with a
\* catalogue id included, returns without raising: a buffer of the input's
\* width and height holding width * height pixels of four bytes each, or for
\* contourToSVG the svg of the input's viewBox whose single path has only
\* subpaths of two points or more.
C11_DegenerateInputsComplete ==
    (/\ call.fn # "none"
     /\ Degenerate
     /\ call.fn = "applyPreset" => call.presetName \in CatalogueIds) =>
        /\ res.kind # "error"
        /\ call.fn = "contourToSVG" =>
              /\ res.kind = "svg"
              /\ res.svg.viewBox = <<input.width, input.height>>
              /\ \A n \in 1..Len(res.svg.subpaths) :
                    Len(res.svg.subpaths[n].points) >= 2
        /\ call.fn # "contourToSVG" =>
              /\ res.kind = "buffer"
              /\ res.img.width = input.width
              /\ res.img.height = input.height
              /\ Len(Out) = input.width * input.height
              /\ \A i \in 1..Len(Out) : Out[i] \in (0..255) \X (0..255)
                                            \X (0..255) \X (0..255)

\* cannyEdgeDetection returned a strip of one column for a strip of one column
C11_Witness ==
    /\ call.fn = "cannyEdgeDetection"
    /\ input.width = 1
    /\ input.height = DegenerateMaxSide
    /\ res.kind = "buffer"
    /\ res.img.height = DegenerateMaxSide
    /\ Len(Out) = DegenerateMaxSide

----------------------------------------------------------------------------
(* boxBlur and unsharpMask on uniform and on other small images *)

BlurMaxSide == 3
BlurMaxPixels == 4

BlurPalette == {White, <<100, 100, 100, 255>>, <<200, 100, 50, 128>>}

BlurImages ==
    {[width |-> w, height |-> h5, data |-> [i \in 1..(w * h5) |-> p]] :
        w \in 1..BlurMaxSide, h5 \in 1..BlurMaxSide, p \in BlurPalette}
        \cup Images(TonalPalette, BlurMaxPixels)

InitBlur == \E image \in BlurImages : Start(image)

\* boxBlur with radius 0, 0.5, 1, 1.5 and 2
CallBoxBlur ==
    \E radius2 \in 0..4 :
        Returned([fn |-> "boxBlur", radius2 |-> radius2],
                 boxBlur(heap, input, radius2))

NextBlur == CallBoxBlur \/ CallUnsharpMask

SpecBlur == InitBlur /\ [][NextBlur]_vars

\* C12: a uniform image (every pixel the same) is a fixed point of boxBlur
\* for every radius >= 0, and unsharpMask returns it unchanged for every
\* radius and amount.
C12_UniformIsFixedPoint ==
    (call.fn \in {"boxBlur", "unsharpMask"} /\ Uniform(orig)) => Out = orig

\* the same for the radii that are whole numbers of pixels
C12_WholeRadius ==
    (/\ call.fn \in {"boxBlur", "unsharpMask"}
     /\ call.radius2 % 2 = 0
     /\ Uniform(orig)) => Out = orig

----------------------------------------------------------------------------
(* The tracing of contourToSVG on every small two-level image *)

TraceMaxPixels == 12

TraceImages == SquareImages \cup Images({Black, White}, TraceMaxPixels)

InitTrace == \E image \in TraceImages : Start(image)

\* contourToSVG(input, 128, { offsetPx }) when both sweeps have finished
TraceContours ==
    /\ call.fn = "none"
    /\ \E offsetPx \in {0, 1, -1} :
        \E edges \in {ContourSegments(heap, input, 128,
                        [DefaultContourOptions EXCEPT !.offsetPx = offsetPx])} :
            /\ call' = [fn |-> "contourToSVG", threshold |-> 128,
                        offsetPx |-> offsetPx, at |-> "traced"]
            /\ res' = [kind |-> "trace", edges |-> edges]
                          @@ TraceState(edges)
    /\ UNCHANGED <<input, orig, heap>>

NextTrace == TraceContours

SpecTrace == InitTrace /\ [][NextTrace]_vars

\* the number of edges at a key, the keys of polyline n and its segments
Degree(key) == Len(Adjacency(res.edges, key))
PolylineKeys(n) ==
    {res.polylines[n].keys[i] : i \in 1..Len(res.polylines[n].keys)}
PolylineSegments ==
    {s \in (1..Len(res.polylines)) \X (1..(2 * Len(res.edges) + 1)) :
        s[2] < Len(res.polylines[s[1]].keys)}

\* C14: the polylines traced from keys of degree other than 2 all come before
\* those traced from a leftover edge, and every connected component of the
\* segment graph is one polyline: every key is on a polyline, no two
\* polylines meet, a polyline through a key of degree other than 2 is open
\* and runs between two distinct keys of degree 1, and a polyline through
\* keys of degree 2 only is closed and ends where it starts.
C14_OnePolylinePerComponent ==
    res.kind = "trace" =>
        /\ \A n \in 1..Len(res.polylines) :
              (n <= res.firstSweep) <=> (Degree(res.polylines[n].keys[1]) # 2)
        /\ \A k \in 1..Len(res.edges) :
              \E n \in 1..Len(res.polylines) :
                  {res.edges[k][1], res.edges[k][2]} \subseteq PolylineKeys(n)
        /\ \A m, n \in 1..Len(res.polylines) :
              m < n => PolylineKeys(m) \cap PolylineKeys(n) = {}
        /\ \A n \in 1..Len(res.polylines) :
              LET keys == res.polylines[n].keys
              IN  IF \E key \in PolylineKeys(n) : Degree(key) # 2
                  THEN /\ ~res.polylines[n].closed
                       /\ Degree(keys[1]) = 1
                       /\ Degree(keys[Len(keys)]) = 1
                       /\ keys[1] # keys[Len(keys)]
                  ELSE /\ res.polylines[n].closed
                       /\ keys[1] = keys[Len(keys)]

\* an image whose contours are an open chain, traced first, and a closed
\* loop, traced from a leftover edge
C14_Witness ==
    /\ res.kind = "trace"
    /\ Len(res.polylines) >= 2
    /\ res.firstSweep >= 1
    /\ res.firstSweep < Len(res.polylines)
    /\ ~res.polylines[1].closed
    /\ res.polylines[Len(res.polylines)].closed

\* C15: for every binary raster the tracing of contourToSVG finishes with
\* every edge marked used, and every edge is a segment of the polylines
\* exactly once, so that the polylines have as many segments as marching
\* squares gave.
C15_EveryEdgeTracedOnce ==
    res.kind = "trace" =>
        /\ res.used = 1..Len(res.edges)
        /\ Cardinality(PolylineSegments) = Len(res.edges)
        /\ \A k \in 1..Len(res.edges) :
              Cardinality({s \in PolylineSegments :
                  LET keys == res.polylines[s[1]].keys
                  IN  {keys[s[2]], keys[s[2] + 1]}
                          = {res.edges[k][1], res.edges[k][2]}})
                  = Cardinality({j \in 1..Len(res.edges) :
                      {res.edges[j][1], res.edges[j][2]}
                          = {res.edges[k][1], res.edges[k][2]}})

\* twelve segments or more traced as three polylines or more
C15_Witness ==
    /\ res.kind = "trace"
    /\ Len(res.edges) >= 12
    /\ Len(res.polylines) >= 3
    /\ Cardinality(PolylineSegments) = Len(res.edges)

\* a key on the outer boundary of the cell grid, in doubled coordinates
OnGridBoundary(key) ==
    \/ key[1] = 0 \/ key[1] = 2 * (input.width - 1)
    \/ key[2] = 0 \/ key[2] = 2 * (input.height - 1)

\* C27: in the segment graph of any binary raster every node has degree 1 or
\* 2, no two edges join the same two nodes, the nodes of degree 1 are those
\* on the outer boundary of the cell grid, and every traced polyline is a
\* closed loop or an open path between two nodes on that boundary.
C27_SegmentGraphDegrees ==
    res.kind = "trace" =>
        /\ \A k \in 1..Len(res.edges) :
              \A side \in {1, 2} :
                  /\ Degree(res.edges[k][side]) \in {1, 2}
                  /\ Degree(res.edges[k][side]) = 1
                        <=> OnGridBoundary(res.edges[k][side])
        /\ \A j, k \in 1..Len(res.edges) :
              j < k => {res.edges[j][1], res.edges[j][2]}
                          # {res.edges[k][1], res.edges[k][2]}
        /\ \A n \in 1..Len(res.polylines) :
              LET keys == res.polylines[n].keys
              IN  \/ /\ res.polylines[n].closed
                     /\ keys[1] = keys[Len(keys)]
                  \/ /\ ~res.polylines[n].closed
                     /\ OnGridBoundary(keys[1])
                     /\ OnGridBoundary(keys[Len(keys)])

\* a raster with an ambiguous cell, a node off the boundary, an open
\* polyline and a closed one
C27_Witness ==
    /\ res.kind = "trace"
    /\ call.offsetPx = 0
    /\ \E i \in 1..(Len(orig) - input.width - 1) :
          \E binary \in {Binarize(orig, 128)} :
              /\ i % input.width # 0
              /\ binary[i] = binary[i + input.width + 1]
              /\ binary[i + 1] = binary[i + input.width]
              /\ binary[i] # binary[i + 1]
    /\ \E k \in 1..Len(res.edges) : ~OnGridBoundary(res.edges[k][1])
    /\ \E n \in 1..Len(res.polylines) : res.polylines[n].closed
    /\ \E n \in 1..Len(res.polylines) : ~res.polylines[n].closed

----------------------------------------------------------------------------
(* The scan of the error diffusion algorithms, pixel by pixel *)

ScanMaxPixels == 8
ScanMaxSide == 5

\* two pixels that leave a quantization error
ScanPalette == {<<100, 100, 100, 255>>, <<200, 100, 50, 128>>}

ScanImages ==
    Images(ScanPalette, ScanMaxPixels)
        \cup {[width |-> w, height |-> h5, data |-> [i \in 1..(w * h5) |-> p]] :
                w \in 3..ScanMaxSide, h5 \in 3..ScanMaxSide, p \in ScanPalette}

InitScan == \E image \in ScanImages : Start(image)

\* an algorithm has copied data into result and seeded errors with getGray
StartErrorDiffusion ==
    /\ call.fn = "none"
    /\ \E name \in ErrorDiffusionNames :
        /\ call' = [fn |-> name]
        /\ res' = [kind |-> "scan", idx |-> 0, quantError |-> 0,
                   errors |-> [i \in 1..Len(orig) |-> getGray(orig[i])],
                   result |-> heap[input.id]]
    /\ UNCHANGED <<input, orig, heap>>

\* the body of the loops over y and x for the pixel idx = y * width + x
DiffusePixel ==
    /\ res.kind = "scan"
    /\ res.idx < input.width * input.height
    /\ LET oldPixel == res.errors[res.idx + 1]
           newPixel == Quantize(oldPixel)
           quantError == oldPixel - newPixel * GrayDen
           kernel == ErrorDiffusionKernel(call.fn)
       IN  res' = [kind |-> "scan", idx |-> res.idx + 1,
                   quantError |-> quantError,
                   errors |-> Distribute(res.errors, res.idx, quantError,
                                         kernel.taps, kernel.divisor,
                                         input.width, input.height),
                   result |-> [res.result EXCEPT ![res.idx + 1] =
                                  setPixel(res.result[res.idx + 1], newPixel)]]
    /\ UNCHANGED <<input, orig, heap, call>>

\* return { width, height, data: result }
FinishErrorDiffusion ==
    /\ res.kind = "scan"
    /\ res.idx = input.width * input.height
    /\ \E ret \in {ReturnCopy(heap, input, res.result)} :
          /\ heap' = ret.heap
          /\ res' = [kind |-> "buffer", img |-> ret.img]
    /\ UNCHANGED <<input, orig, call>>

NextScan == StartErrorDiffusion \/ DiffusePixel \/ FinishErrorDiffusion

SpecScan == InitScan /\ [][NextScan]_vars

\* the scan returns what the algorithm returns
ScanAgrees ==
    res.kind = "buffer" =>
        Out = LET r == ditheringAlgorithms(call.fn, <<orig>>, input)
              IN  r.heap[r.img.id]

\* the share of the error of pixel idx that cell j (both 0-based) is due: that
\* of the tap aimed at it from (x, y), nothing when no tap is
ShareDue(j, idx, quantError, name) ==
    LET kernel == ErrorDiffusionKernel(name)
        dx == (j % input.width) - (idx % input.width)
        dy == (j \div input.width) - (idx \div input.width)
        aimed == {t \in 1..Len(kernel.taps) :
                    kernel.taps[t][1] = dx /\ kernel.taps[t][2] = dy}
    IN  IF aimed = {} THEN 0
        ELSE RoundDiv(quantError * kernel.taps[CHOOSE t \in aimed : TRUE][3],
                      kernel.divisor)

\* C16: when an error diffusion algorithm processes pixel (x, y), every cell
\* of errors that changes lies in the image strictly later in the scan (in
\* row y at a larger column, or in a lower row), each cell receives exactly
\* the share of the tap aimed at it from (x, y) and nothing from a tap aimed
\* outside the image, and no pixel of result other than (x, y) changes.
C16_ErrorGoesForward ==
    [][(res.kind = "scan" /\ res'.kind = "scan") =>
          /\ DOMAIN res'.errors = 1..(input.width * input.height)
          /\ \A j \in 0..(input.width * input.height - 1) :
                /\ res'.errors[j + 1] # res.errors[j + 1] =>
                      /\ j > res.idx
                      /\ \/ /\ j \div input.width = res.idx \div input.width
                            /\ j % input.width > res.idx % input.width
                         \/ j \div input.width > res.idx \div input.width
                /\ res'.errors[j + 1] - res.errors[j + 1]
                      = ShareDue(j, res.idx, res'.quantError, call.fn)
                /\ j # res.idx => res'.result[j + 1] = res.result[j + 1]
      ]_vars

\* stucki has processed the last pixel of the first row of an image three
\* pixels wide or more, with an error to spread: the taps to its right are
\* aimed outside the image
C16_Witness ==
    /\ call.fn = "stucki"
    /\ res.kind = "scan"
    /\ input.width >= 3 /\ input.height >= 2
    /\ res.idx = input.width
    /\ res.quantError # 0
    /\ res.errors[input.width + 1] # getGray(orig[input.width + 1])

\* the taps of the kernel of name that carry a weight (the kernels of sierra
\* hold two zero cells)
WeightedTaps(name) ==
    {t \in 1..Len(ErrorDiffusionKernel(name).taps) :
        ErrorDiffusionKernel(name).taps[t][3] # 0}

\* every weighted tap aimed from pixel idx (0-based) lands in the image
FootprintInside(idx, name) ==
    \A t \in WeightedTaps(name) :
        LET nx == (idx % input.width) + ErrorDiffusionKernel(name).taps[t][1]
            ny == (idx \div input.width) + ErrorDiffusionKernel(name).taps[t][2]
        IN  nx >= 0 /\ nx < input.width /\ ny < input.height

\* the sum of after[j] - before[j] over the cells from j on
RECURSIVE ErrorAdded(_, _, _)
ErrorAdded(before, after, j) ==
    IF j > Len(before) THEN 0
    ELSE after[j] - before[j] + ErrorAdded(before, after, j + 1)

\* the eighths of the quantization error that the algorithm distributes
EighthsDistributed(name) == IF name = "atkinson" THEN 6 ELSE 8

\* C25: when an error diffusion algorithm processes a pixel whose whole
\* kernel footprint lies in the image, the shares added to the neighbours
\* sum to the quantization error (to 6/8 of it for atkinson), each share
\* being within half a unit of the accumulator of its exact value.
C25_SharesSumToError ==
    [][(/\ res.kind = "scan" /\ res'.kind = "scan"
        /\ FootprintInside(res.idx, call.fn)) =>
          LET added == ErrorAdded(res.errors, res'.errors, 1)
              gap == 8 * added - EighthsDistributed(call.fn) * res'.quantError
          IN  2 * Abs(gap) <= 8 * Cardinality(WeightedTaps(call.fn))
      ]_vars

\* jarvisJudiceNinke has processed pixel (2, 0) of an image five pixels wide
\* and three high, the first whose 12 taps all land in the image
C25_Witness ==
    /\ call.fn = "jarvisJudiceNinke"
    /\ res.kind = "scan"
    /\ input.width >= 5 /\ input.height >= 3
    /\ res.idx = 3
    /\ res.quantError # 0
    /\ FootprintInside(2, "jarvisJudiceNinke")

----------------------------------------------------------------------------
(* The hysteresis loop of cannyEdgeDetection, pass by pass *)

HysteresisMaxInterior == 7

\* edgesOutput after the double threshold, on a grid whose interior has at
\* most HysteresisMaxInterior pixels.  The border of suppressed is 0, so the
\* border is 0 when lowThreshold > 0, and nothing is 0 when lowThreshold <= 0.
Classifications(width, height) ==
    LET inner == {i \in 1..(width * height) : Interior(i, width, height, 1)}
    IN  {[i \in 1..(width * height) |-> IF i \in inner THEN f[i] ELSE 0] :
            f \in [inner -> {0, 1, 2}]}
        \cup {[i \in 1..(width * height) |-> IF i \in inner THEN f[i] ELSE 1] :
                f \in [inner -> {1, 2}]}
        \cup {[i \in 1..(width * height) |-> 2]}

\* cannyEdgeDetection about to enter `while (changed)`; the image that gave
\* edgesOutput is not part of the state
InitHysteresis ==
    \E d \in {e \in (3..(HysteresisMaxInterior + 2))
                        \X (3..(HysteresisMaxInterior + 2)) :
                (e[1] - 2) * (e[2] - 2) <= HysteresisMaxInterior} :
        \E edges \in Classifications(d[1], d[2]) :
            /\ input = [id |-> 1, width |-> d[1], height |-> d[2]]
            /\ orig = <<>>
            /\ heap = <<>>
            /\ call = [fn |-> "cannyEdgeDetection", at |-> "hysteresis"]
            /\ res = [kind |-> "hysteresis", edgesOutput |-> edges,
                      classified |-> edges, changed |-> TRUE]

\* a pass that promoted nothing leaves changed false
Changed_Never(before, after) == FALSE

\* changed after a pass: true when a pixel was promoted
Changed(before, after) == before # after

\* one iteration of `while (changed)`
HysteresisLoop ==
    /\ res.kind = "hysteresis"
    /\ res.changed
    /\ \E after \in {HysteresisPass(res.edgesOutput, 1, input.width,
                                    input.height)} :
          res' = [res EXCEPT !.edgesOutput = after,
                             !.changed = Changed(res.edgesOutput, after)]
    /\ UNCHANGED <<input, orig, heap, call>>

\* the loop is left when changed is false
HysteresisExit ==
    /\ res.kind = "hysteresis"
    /\ ~res.changed
    /\ res' = [res EXCEPT !.kind = "edges"]
    /\ call' = [call EXCEPT !.at = "output"]
    /\ UNCHANGED <<input, orig, heap>>

NextHysteresis == HysteresisLoop \/ HysteresisExit

SpecHysteresis ==
    InitHysteresis /\ [][NextHysteresis]_vars /\ WF_vars(NextHysteresis)

\* the loop ends with what Hysteresis computes
HysteresisAgrees ==
    res.kind = "edges" =>
        res.edgesOutput = Hysteresis(res.classified, input.width, input.height)

\* pixels i and j are 8-adjacent (or the same)
Adjacent8(i, j) ==
    /\ Abs(((i - 1) % input.width) - ((j - 1) % input.width)) <= 1
    /\ Abs(((i - 1) \div input.width) - ((j - 1) \div input.width)) <= 1

\* S with the interior weak pixels that chains of 8-adjacent interior weak
\* pixels connect to it
RECURSIVE Connected(_)
Connected(S) ==
    LET more == {i \in 1..Len(res.classified) :
                    /\ i \notin S
                    /\ res.classified[i] = 1
                    /\ Interior(i, input.width, input.height, 1)
                    /\ \E j \in S : Adjacent8(i, j)}
    IN  IF more = {} THEN S ELSE Connected(S \cup more)

\* C17: the hysteresis loop of cannyEdgeDetection ends; no pass demotes a
\* strong pixel; and when the loop has ended no interior weak pixel has a
\* strong pixel among its 8 neighbours, the strong pixels being the pixels
\* classified strong together with exactly the interior weak pixels that a
\* chain of 8-adjacent interior weak pixels connects to one of them.
C17_HysteresisReachesFixedPoint ==
    /\ <>(res.kind = "edges")
    /\ [][\A i \in 1..Len(res.edgesOutput) :
              res.edgesOutput[i] = 2 => res'.edgesOutput[i] = 2]_vars
    /\ [](res.kind = "edges" =>
            /\ \A i \in 1..Len(res.edgesOutput) :
                  (/\ res.edgesOutput[i] = 1
                   /\ Interior(i, input.width, input.height, 1)) =>
                      \A j \in 1..Len(res.edgesOutput) :
                          Adjacent8(i, j) => res.edgesOutput[j] # 2
            /\ {i \in 1..Len(res.edgesOutput) : res.edgesOutput[i] = 2}
                  = Connected({i \in 1..Len(res.classified) :
                                  res.classified[i] = 2}))

\* the loop has ended after promoting a row of weak pixels from right to
\* left, one pass each
C17_Witness ==
    /\ res.kind = "edges"
    /\ input.height = 3
    /\ input.width = HysteresisMaxInterior + 2
    /\ \A x \in 1..(HysteresisMaxInterior - 1) :
          res.classified[input.width + x + 1] = 1
    /\ res.classified[input.width + HysteresisMaxInterior + 1] = 2
    /\ \A x \in 1..HysteresisMaxInterior :
          res.edgesOutput[input.width + x + 1] = 2

----------------------------------------------------------------------------
(* The file loading of the tool components *)

(* In this part the five variables hold a tool component instead of an
   engine call: input is the sequence of files passed to handleFile, heap
   the Image elements created by loadImageSize, call the tool with its
   normalizeImageFile promises still pending, and res the component's
   variables imageFile, imageUrl, imageSize and cachedImageData. *)

ToolMaxSelections == 2

\* the tools, and those whose onload caches the decoded pixels
Tools == {"DitherTool", "AdjustTool", "ContourTool", "MaskTool", "BackgroundTool"}
CachingTools == {"AdjustTool", "ContourTool", "MaskTool"}

Files == {"a.heic", "b.png", "c.heic"}

\* isLikelyHeicFile(file)
isLikelyHeicFile(file) == file \in {"a.heic", "c.heic"}

\* the File that normalizeImageFile resolves to
normalizeImageFile(file) ==
    CASE file = "a.heic" -> "a.jpg"
      [] file = "c.heic" -> "c.jpg"
      [] OTHER -> file

\* img.width and img.height once the file is decoded
DecodedSize(file) ==
    CASE file \in {"a.heic", "a.jpg"} -> [width |-> 4, height |-> 3]
      [] file \in {"c.heic", "c.jpg"} -> [width |-> 1, height |-> 5]
      [] OTHER -> [width |-> 2, height |-> 2]

InitTool ==
    /\ input = <<>>
    /\ orig = <<>>
    /\ heap = <<>>
    /\ \E tool \in Tools : call = [fn |-> tool, pending |-> {}]
    /\ res = [kind |-> "component", imageFile |-> "null", imageUrl |-> 0,
              imageSize |-> [width |-> 0, height |-> 0],
              cachedImageData |-> "null"]

\* the body of handleFile's then (given = normalized) and catch (given =
\* file) for selection n: imageFile and imageUrl are set and loadImageSize
\* creates an Image whose src is the new object URL
SetImageFile(n, given) ==
    /\ heap' = Append(heap, [from |-> n, file |-> given, complete |-> FALSE])
    /\ res' = [res EXCEPT !.imageFile = given, !.imageUrl = Len(heap) + 1]

\* handleFile(file): normalizeImageFile returns a file that is not HEIC at
\* once, and its then runs before the next event; a HEIC file is awaited
handleFile ==
    /\ Len(input) < ToolMaxSelections
    /\ \E file \in Files :
        /\ input' = Append(input, file)
        /\ IF isLikelyHeicFile(file)
           THEN /\ call' = [call EXCEPT !.pending = @ \cup {Len(input) + 1}]
                /\ UNCHANGED <<heap, res>>
           ELSE /\ SetImageFile(Len(input) + 1, normalizeImageFile(file))
                /\ UNCHANGED call
    /\ UNCHANGED orig

\* a pending normalizeImageFile is fulfilled
NormalizeFulfilled ==
    /\ \E n \in call.pending :
        /\ call' = [call EXCEPT !.pending = @ \ {n}]
        /\ SetImageFile(n, normalizeImageFile(input[n]))
    /\ UNCHANGED <<input, orig>>

\* a pending normalizeImageFile is rejected (heicTo failed)
NormalizeRejected ==
    /\ \E n \in call.pending :
        /\ call' = [call EXCEPT !.pending = @ \ {n}]
        /\ SetImageFile(n, input[n])
    /\ UNCHANGED <<input, orig>>

\* img.onload of one of the Images that are still loading
ImageOnload ==
    /\ \E k \in 1..Len(heap) :
        /\ ~heap[k].complete
        /\ heap' = [heap EXCEPT ![k].complete = TRUE]
        /\ res' = [res EXCEPT
                      !.imageSize = DecodedSize(heap[k].file),
                      !.cachedImageData =
                          IF call.fn \in CachingTools THEN heap[k].file
                          ELSE @]
    /\ UNCHANGED <<input, orig, call>>

NextTool ==
    \/ handleFile
    \/ NormalizeFulfilled
    \/ NormalizeRejected
    \/ ImageOnload

SpecTool == InitTool /\ [][NextTool]_vars

\* C19: in each tool, when file A and then file B were selected and every
\* normalization and every image load has completed, in whatever order,
\* imageFile, imageUrl, imageSize and cachedImageData are those of B.
C19_LastSelectedFileWins ==
    (/\ Len(input) >= 2
     /\ call.pending = {}
     /\ Len(heap) = Len(input)
     /\ \A k \in 1..Len(heap) : heap[k].complete) =>
        LET b == input[Len(input)]
        IN  /\ res.imageFile \in {b, normalizeImageFile(b)}
            /\ heap[res.imageUrl].from = Len(input)
            /\ res.imageSize = DecodedSize(b)
            /\ call.fn \in CachingTools =>
                  res.cachedImageData \in {b, normalizeImageFile(b)}

----------------------------------------------------------------------------
(* getModel of the background removal module under concurrent calls *)

(* In this part input is unused, heap holds the loads that from_pretrained
   has started (one instance each), call the calls of removeImageBackground
   and getBackgroundMask made so far with their position in getModel, and
   res the module's variables model and processor (0 is null). *)

BackgroundMaxCalls == 3

InitBackground ==
    /\ input = <<>>
    /\ orig = <<>>
    /\ heap = <<>>
    /\ call = [fn |-> "background", calls |-> <<>>]
    /\ res = [kind |-> "module", model |-> 0, processor |-> 0]

\* getModel up to its first await, for a call of fn: with both variables set
\* it returns them, otherwise it starts AutoModel.from_pretrained
getModel(fn) ==
    /\ IF res.model = 0 \/ res.processor = 0
       THEN /\ heap' = Append(heap, [load |-> "AutoModel",
                                     by |-> Len(call.calls) + 1])
            /\ call' = [call EXCEPT !.calls =
                          Append(@, [fn |-> fn, at |-> "await AutoModel",
                                     load |-> Len(heap) + 1])]
       ELSE /\ call' = [call EXCEPT !.calls =
                          Append(@, [fn |-> fn, at |-> "returned",
                                     model |-> res.model,
                                     processor |-> res.processor])]
            /\ UNCHANGED heap
    /\ UNCHANGED <<input, orig, res>>

\* const { model: segModel, processor: segProcessor } = await getModel(...)
removeImageBackground ==
    /\ Len(call.calls) < BackgroundMaxCalls
    /\ getModel("removeImageBackground")

getBackgroundMask ==
    /\ Len(call.calls) < BackgroundMaxCalls
    /\ getModel("getBackgroundMask")

\* model = await AutoModel.from_pretrained(...) resumes in call i, which goes
\* on to start AutoProcessor.from_pretrained
ModelLoaded ==
    /\ \E i \in 1..Len(call.calls) :
        /\ call.calls[i].at = "await AutoModel"
        /\ res' = [res EXCEPT !.model = call.calls[i].load]
        /\ heap' = Append(heap, [load |-> "AutoProcessor", by |-> i])
        /\ call' = [call EXCEPT !.calls[i] =
                      [fn |-> call.calls[i].fn, at |-> "await AutoProcessor",
                       load |-> Len(heap) + 1]]
    /\ UNCHANGED <<input, orig>>

\* processor = await AutoProcessor.from_pretrained(...) resumes in call i,
\* which returns { model, processor }
ProcessorLoaded ==
    /\ \E i \in 1..Len(call.calls) :
        /\ call.calls[i].at = "await AutoProcessor"
        /\ res' = [res EXCEPT !.processor = call.calls[i].load]
        /\ call' = [call EXCEPT !.calls[i] =
                      [fn |-> call.calls[i].fn, at |-> "returned",
                       model |-> res.model,
                       processor |-> call.calls[i].load]]
    /\ UNCHANGED <<input, orig, heap>>

NextBackground ==
    \/ removeImageBackground
    \/ getBackgroundMask
    \/ ModelLoaded
    \/ ProcessorLoaded

SpecBackground == InitBackground /\ [][NextBackground]_vars

\* C20: whatever the interleaving of removeImageBackground and
\* getBackgroundMask calls, from_pretrained is started at most once for the
\* model and at most once for the processor, and all the calls that have
\* returned from getModel hold the same model and the same processor.
C20_ModelLoadedOnce ==
    /\ Cardinality({k \in 1..Len(heap) : heap[k].load = "AutoModel"}) <= 1
    /\ Cardinality({k \in 1..Len(heap) : heap[k].load = "AutoProcessor"}) <= 1
    /\ \A i, j \in 1..Len(call.calls) :
          (call.calls[i].at = "returned" /\ call.calls[j].at = "returned") =>
              /\ call.calls[i].model = call.calls[j].model
              /\ call.calls[i].processor = call.calls[j].processor

----------------------------------------------------------------------------
(* The debounced live preview of the Adjust, Contour and Mask tools *)

(* In this part input is the parameter value the controls currently hold,
   orig the previews that generatePreview has produced, heap the set of
   timers that setTimeout has armed and that have neither fired nor been
   cleared, call the tool and the number of updatePreview calls so far, and
   res the component's variables previewDebounceTimer (0 is null),
   cachedImageData and imageUrl (0 is null). *)

PreviewMaxCalls == 4

PreviewTools == {"Adjust", "Contour", "Mask"}

PreviewParams == {0, 1, 2}

PreviewDelay(tool) == IF tool = "Contour" THEN 100 ELSE 50

InitPreview ==
    /\ input = 0
    /\ orig = <<>>
    /\ heap = {}
    /\ \E tool \in PreviewTools :
          call = [fn |-> tool, calls |-> 0]
    /\ res = [kind |-> "preview", previewDebounceTimer |-> 0,
              cachedImageData |-> 0, imageUrl |-> 0]

\* clearTimeout(id): an id that is not pending is ignored
clearTimeout(timers, id) == {t \in timers : t.id # id}

\* updatePreview without its clearTimeout
updatePreview_NoCancel(timers, r, c) ==
    [timers |-> timers \cup {[id |-> c.calls + 1,
                              delay |-> PreviewDelay(c.fn)]},
     timer |-> c.calls + 1]

\* updatePreview(): the timers pending and the value of previewDebounceTimer
\* afterwards; setTimeout returns a fresh positive id
updatePreview(timers, r, c) ==
    [timers |->
        (IF r.previewDebounceTimer # 0
         THEN clearTimeout(timers, r.previewDebounceTimer)
         ELSE timers)
        \cup {[id |-> c.calls + 1, delay |-> PreviewDelay(c.fn)]},
     timer |-> c.calls + 1]

\* generatePreview(): the previews after a run that finds the parameter
\* value p; the Mask tool also returns early without imageUrl
generatePreview(previews, r, c, p) ==
    IF r.cachedImageData = 0 \/ (c.fn = "Mask" /\ r.imageUrl = 0)
    THEN previews
    ELSE Append(previews, [params |-> p, image |-> r.cachedImageData,
                           calls |-> c.calls])

\* a control changes a parameter and the handler or the reactive statement
\* calls updatePreview
ChangeParameter ==
    /\ call.calls < PreviewMaxCalls
    /\ \E p \in PreviewParams :
        /\ input' = p
        /\ \E u \in {updatePreview(heap, res, call)} :
            /\ heap' = u.timers
            /\ res' = [res EXCEPT !.previewDebounceTimer = u.timer]
    /\ call' = [call EXCEPT !.calls = @ + 1]
    /\ UNCHANGED orig

\* img.onload of loadImageSize caches the image, which leads to updatePreview
PreviewOnload ==
    /\ call.calls < PreviewMaxCalls
    /\ \E image \in {1, 2} :
        \E u \in {updatePreview(heap, res, call)} :
            /\ heap' = u.timers
            /\ res' = [res EXCEPT !.previewDebounceTimer = u.timer,
                                  !.cachedImageData = image,
                                  !.imageUrl = image]
    /\ call' = [call EXCEPT !.calls = @ + 1]
    /\ UNCHANGED <<input, orig>>

\* changeImage(): the Adjust tool also resets its parameters
changeImage ==
    /\ res.imageUrl # 0
    /\ res' = [res EXCEPT !.cachedImageData = 0, !.imageUrl = 0]
    /\ input' = IF call.fn = "Adjust" THEN 0 ELSE input
    /\ UNCHANGED <<orig, heap, call>>

\* a pending timer fires and its callback calls generatePreview
PreviewTimeout ==
    /\ \E t \in heap :
        /\ heap' = heap \ {t}
        /\ orig' = generatePreview(orig, res, call, input)
    /\ UNCHANGED <<input, call, res>>

NextPreview ==
    \/ ChangeParameter
    \/ PreviewOnload
    \/ changeImage
    \/ PreviewTimeout

SpecPreviewTimer == InitPreview /\ [][NextPreview]_vars

\* C21: at most one preview timer is pending at any time; a preview is only
\* produced by the timer of the latest updatePreview call, so each burst of
\* calls gives one run; the run uses the parameter value current when the
\* timer fires; a timer that fires without a cached image gives no preview.
C21_OnePreviewPerBurst ==
    /\ [](Cardinality(heap) <= 1)
    /\ [](\A i, j \in 1..Len(orig) : i < j => orig[i].calls < orig[j].calls)
    /\ [][(call' = call /\ heap' # heap) =>
            /\ heap' = {}
            /\ \A t \in heap : t.id = call.calls
            /\ IF res.cachedImageData = 0
               THEN orig' = orig
               ELSE /\ Len(orig') = Len(orig) + 1
                    /\ orig'[Len(orig')].params = input
                    /\ orig'[Len(orig')].calls = call.calls]_vars

\* a burst of three updatePreview calls has given exactly one preview, with
\* the last parameter value, and a timer has fired after changeImage
C21_Witness ==
    /\ call.calls = PreviewMaxCalls
    /\ Len(orig) = 1
    /\ orig[1].calls = 3
    /\ res.cachedImageData = 0
    /\ heap = {}

----------------------------------------------------------------------------
(* The composition of image and mask in the Mask tool component *)

MaskToolMaxPixels == 4

\* pixels as getImageData returns them: transparent, translucent, opaque
MaskToolPalette == {<<0, 0, 0, 0>>, <<200, 100, 50, 128>>, <<10, 240, 30, 255>>}

MaskToolImages == Images(MaskToolPalette, MaskToolMaxPixels)

InitMaskTool == \E image \in MaskToolImages : Start(image)

\* the red channel of maskCanvas once the background is filled and the shape
\* mask of side shapeMaskSize is drawn around the centre (maskX = maskY =
\* 0.5): every outcome of the drawing.  A shape drawn at a fractional offset
\* is resampled by the browser, which leaves every pixel at any level.
MaskCanvas(selectedMask, invertMaskOpt, shapeMaskSize, width, height) ==
    LET fill == IF invertMaskOpt THEN 255 ELSE 0
        drawX2 == width - shapeMaskSize
        drawY2 == height - shapeMaskSize
        x(i) == ((i - 1) % width) - (drawX2 \div 2)
        y(i) == ((i - 1) \div width) - (drawY2 \div 2)
        inside(i) == /\ x(i) >= 0 /\ x(i) < shapeMaskSize
                     /\ y(i) >= 0 /\ y(i) < shapeMaskSize
        red(shapeMask, i) ==
            With(shapeMask[y(i) * shapeMaskSize + x(i) + 1][1],
                 LAMBDA v : IF invertMaskOpt THEN 255 - v ELSE v)
    IN  IF shapeMaskSize = 0
        THEN {[i \in 1..(width * height) |-> fill]}
        ELSE IF drawX2 % 2 # 0 \/ drawY2 % 2 # 0
        THEN [1..(width * height) -> MaskLevels]
        ELSE {[i \in 1..(width * height) |->
                  IF inside(i) THEN red(shapeMask, i) ELSE fill] :
              shapeMask \in generateShapeMask(selectedMask, shapeMaskSize,
                                              shapeMaskSize)}

\* featherMaskData(maskData, radius) on the red channel
featherMaskData(red, width, height, radius) ==
    LET x(i) == (i - 1) % width
        y(i) == (i - 1) \div width
        window(i) == {j \in DOMAIN red :
                        /\ Abs(x(j) - x(i)) <= radius
                        /\ Abs(y(j) - y(i)) <= radius}
        RECURSIVE sum(_)
        sum(S) == IF S = {} THEN 0
                  ELSE LET j == CHOOSE k \in S : TRUE
                       IN  red[j] + sum(S \ {j})
    IN  [i \in DOMAIN red |-> MathRound(sum(window(i)), Cardinality(window(i)))]

\* the loop that fills resultData from cachedImageData and the mask
MaskToolCompose(data, red) ==
    [i \in DOMAIN data |-> <<data[i][1], data[i][2], data[i][3], red[i]>>]

\* the state after the component built resultData with the mask red
MaskToolResult(fn, red, blurRadius) ==
    /\ call' = fn
    /\ \E finalMask \in {IF blurRadius > 0
                         THEN featherMaskData(red, input.width, input.height,
                                              blurRadius)
                         ELSE red} :
          res' = [kind |-> "resultData", mask |-> finalMask,
                  data |-> MaskToolCompose(heap[input.id], finalMask)]
    /\ UNCHANGED <<input, orig, heap>>

\* generatePreview of the Mask tool
MaskGeneratePreview ==
    /\ call.fn = "none"
    /\ \E selectedMask \in {"circle", "star"}, invertMaskOpt \in BOOLEAN,
          maskScale \in {0, 1}, featherAmount \in {0, 1} :
        \E red \in MaskCanvas(selectedMask, invertMaskOpt,
                              Min(input.width, input.height) * maskScale,
                              input.width, input.height) :
            MaskToolResult([fn |-> "generatePreview", invert |-> invertMaskOpt,
                            feather |-> featherAmount],
                           red, Min(featherAmount, 10))

\* applyMask of the Mask tool
MaskApplyMask ==
    /\ call.fn = "none"
    /\ \E selectedMask \in {"circle", "star"}, invertMaskOpt \in BOOLEAN,
          maskScale \in {0, 1}, featherAmount \in {0, 1} :
        \E red \in MaskCanvas(selectedMask, invertMaskOpt,
                              Min(input.width, input.height) * maskScale,
                              input.width, input.height) :
            MaskToolResult([fn |-> "applyMask", invert |-> invertMaskOpt,
                            feather |-> featherAmount],
                           red, featherAmount)

NextMaskTool == MaskGeneratePreview \/ MaskApplyMask

SpecMaskTool == InitMaskTool /\ [][NextMaskTool]_vars

\* C22: in the Mask tool the preview and the applied result give each pixel
\* the alpha round(sourceAlpha * maskValue / 255), so a pixel transparent in
\* the source stays transparent and no alpha exceeds the source's.
C22_MaskToolScalesAlpha ==
    res.kind = "resultData" =>
        \A i \in 1..Len(orig) :
            /\ res.data[i][4] = MathRound(orig[i][4] * res.mask[i], 255)
            /\ res.data[i][4] <= orig[i][4]
            /\ orig[i][4] = 0 => res.data[i][4] = 0

----------------------------------------------------------------------------
(* extractContours over every small image and several thresholds *)

ExtractMaxPixels == 12
ExtractSmallPixels == 6

\* an opaque dark pixel and a translucent black one, of gray 155 on white
ExtractPalette == {<<10, 10, 10, 255>>, <<0, 0, 0, 100>>}

ExtractImages ==
    Images(ExtractPalette, ExtractMaxPixels)
        \cup Images(ExtractPalette \cup {<<0, 0, 0, 0>>, <<250, 250, 250, 255>>},
                    ExtractSmallPixels)

ExtractThresholds == {0, 128, 200}

InitExtract == \E image \in ExtractImages : Start(image)

\* extractContours(imageData, threshold), 128 being the default
CallExtractContoursAt ==
    /\ call.fn = "none"
    /\ \E thresholdArg \in ExtractThresholds :
        Returned([fn |-> "extractContours", threshold |-> thresholdArg],
                 extractContours(heap, input, thresholdArg))

NextExtract == CallExtractContoursAt

SpecExtract == InitExtract /\ [][NextExtract]_vars

\* C23: extractContours colours a pixel opaque black exactly when it is not
\* in the first or last row or column, its gray on white is below the
\* threshold and one of its four neighbours has a gray on white at or above
\* the threshold; every other pixel is opaque white.
C23_ContourPixels ==
    (res.kind = "buffer" /\ call.fn = "extractContours") =>
        LET x(i) == (i - 1) % input.width
            y(i) == (i - 1) \div input.width
            onBorder(i) == \/ x(i) = 0 \/ x(i) = input.width - 1
                           \/ y(i) = 0 \/ y(i) = input.height - 1
            below(i) == getGrayOnWhite(orig[i]) < call.threshold * GrayDen
            neighbours(i) == {j \in 1..Len(orig) :
                                Abs(x(j) - x(i)) + Abs(y(j) - y(i)) = 1}
        IN  /\ Len(Out) = Len(orig)
            /\ \A i \in 1..Len(orig) :
                  Out[i] = IF /\ ~onBorder(i)
                              /\ below(i)
                              /\ \E j \in neighbours(i) : ~below(j)
                           THEN <<0, 0, 0, 255>>
                           ELSE <<255, 255, 255, 255>>

\* a 3 x 4 or larger result with a black pixel next to a dark pixel of the
\* input that stayed white
C23_Witness ==
    /\ res.kind = "buffer"
    /\ call.fn = "extractContours"
    /\ input.width >= 3
    /\ input.height >= 4
    /\ \E i, j \in 1..Len(orig) :
          /\ Out[i] = <<0, 0, 0, 255>>
          /\ Out[j] = <<255, 255, 255, 255>>
          /\ j = i + input.width
          /\ getGrayOnWhite(orig[j]) < call.threshold * GrayDen

----------------------------------------------------------------------------
(* getMarchingSquaresSegments on every cell configuration *)

CellMaxCoord == 2

\* a cell at (x, y) with the binary values of its four corner pixels
InitCell ==
    /\ input \in [x : 0..CellMaxCoord, y : 0..CellMaxCoord,
                  tl : {0, 1}, tr : {0, 1}, br : {0, 1}, bl : {0, 1}]
    /\ orig = <<>>
    /\ heap = <<>>
    /\ call = [fn |-> "none"]
    /\ res = [kind |-> "none"]

\* const config = (tl << 3) | (tr << 2) | (br << 1) | bl
CellConfig(c) == 8 * c.tl + 4 * c.tr + 2 * c.br + c.bl

CallGetMarchingSquaresSegments ==
    /\ call.fn = "none"
    /\ call' = [fn |-> "getMarchingSquaresSegments",
                config |-> CellConfig(input)]
    /\ res' = [kind |-> "segments",
               segments |-> getMarchingSquaresSegments(input.x, input.y,
                                                       CellConfig(input))]
    /\ UNCHANGED <<input, orig, heap>>

NextCell == CallGetMarchingSquaresSegments

SpecCell == InitCell /\ [][NextCell]_vars

\* the midpoints of the four edges of the cell, in doubled coordinates, with
\* the two corners each edge joins
CellEdges ==
    {[mid |-> <<2 * input.x + 1, 2 * input.y>>, ends |-> {"tl", "tr"}],
     [mid |-> <<2 * input.x + 2, 2 * input.y + 1>>, ends |-> {"tr", "br"}],
     [mid |-> <<2 * input.x + 1, 2 * input.y + 2>>, ends |-> {"bl", "br"}],
     [mid |-> <<2 * input.x, 2 * input.y + 1>>, ends |-> {"tl", "bl"}]}

CornerValue(corner) ==
    CASE corner = "tl" -> input.tl
      [] corner = "tr" -> input.tr
      [] corner = "br" -> input.br
      [] corner = "bl" -> input.bl

\* C24: configurations 0 and 15 give no segment, 5 and 10 two and the others
\* one; every midpoint of a cell edge whose corners differ is the endpoint
\* of exactly one segment and no other point is an endpoint; in 5 and 10
\* each segment joins the two edges that meet at one off corner.
C24_MarchingSquaresTable ==
    res.kind = "segments" =>
        LET segs == res.segments
            ends == {<<k, side>> : k \in 1..Len(segs), side \in {1, 2}}
            at(m) == {e \in ends : segs[e[1]][e[2]] = m}
            differ(edge) == Cardinality({CornerValue(c) : c \in edge.ends}) = 2
        IN  /\ Len(segs) = (CASE call.config \in {0, 15} -> 0
                              [] call.config \in {5, 10} -> 2
                              [] OTHER -> 1)
            /\ \A e \in ends : \E edge \in CellEdges : segs[e[1]][e[2]] = edge.mid
            /\ \A edge \in CellEdges :
                  Cardinality(at(edge.mid)) = IF differ(edge) THEN 1 ELSE 0
            /\ call.config \in {5, 10} =>
                  \A k \in 1..Len(segs) :
                      \E corner \in {"tl", "tr", "br", "bl"} :
                          /\ CornerValue(corner) = 0
                          /\ {segs[k][1], segs[k][2]} =
                                {edge.mid : edge \in
                                    {d \in CellEdges : corner \in d.ends}}

\* configuration 10 away from the origin, with its two segments
C24_Witness ==
    /\ res.kind = "segments"
    /\ call.config = 10
    /\ input.x = CellMaxCoord
    /\ input.y = 1
    /\ Len(res.segments) = 2

----------------------------------------------------------------------------
(* One Chaikin iteration of contourToSVG on every short polyline *)

ChaikinMaxPoints == 4

\* the coordinates of the points, in pixels
ChaikinCoords == {0, 1, 2}

\* the polylines of 3 to ChaikinMaxPoints points whose consecutive points
\* differ
ChaikinPolylines ==
    UNION {{pts \in [1..n -> ChaikinCoords \X ChaikinCoords] :
                \A i \in 1..(n - 1) : pts[i] # pts[i + 1]} :
           n \in 3..ChaikinMaxPoints}

InitChaikin ==
    /\ input \in [pts : ChaikinPolylines, closed : BOOLEAN]
    /\ orig = <<>>
    /\ heap = <<>>
    /\ call = [fn |-> "none"]
    /\ res = [kind |-> "none"]

\* chaikin(points, isClosed, 1); the points returned are in quarters
CallChaikin ==
    /\ call.fn = "none"
    /\ call' = [fn |-> "chaikin", iterations |-> 1]
    /\ res' = [kind |-> "points"] @@ chaikin(input.pts, 1, input.closed, 1)
    /\ UNCHANGED <<input, orig, heap>>

\* chaikin(points.reverse(), false, 1).reverse() for an open polyline
CallChaikinReversed ==
    /\ call.fn = "none"
    /\ ~input.closed
    /\ call' = [fn |-> "chaikin", iterations |-> 1, reversed |-> TRUE]
    /\ \E n \in {Len(input.pts)} :
        \E r \in {chaikin([i \in 1..n |-> input.pts[n + 1 - i]], 1, FALSE, 1)} :
            res' = [kind |-> "points", unit |-> r.unit,
                    points |-> [i \in 1..Len(r.points) |->
                                   r.points[Len(r.points) + 1 - i]]]
    /\ UNCHANGED <<input, orig, heap>>

NextChaikin == CallChaikin \/ CallChaikinReversed

SpecChaikin == InitChaikin /\ [][NextChaikin]_vars

\* the points at 1/4 and 3/4 of every segment of pts in order, in quarters,
\* between the first and the last point when the polyline is open
QuarterPoints(pts, closed) ==
    LET n == Len(pts)
        segments == IF closed THEN n ELSE n - 1
        p0(k) == pts[k]
        p1(k) == pts[(k % n) + 1]
        cuts == [i \in 1..(2 * segments) |->
                    LET k == (i + 1) \div 2
                    IN  IF i % 2 = 1
                        THEN <<3 * p0(k)[1] + p1(k)[1], 3 * p0(k)[2] + p1(k)[2]>>
                        ELSE <<p0(k)[1] + 3 * p1(k)[1], p0(k)[2] + 3 * p1(k)[2]>>]
    IN  IF closed THEN cuts
        ELSE <<<<4 * pts[1][1], 4 * pts[1][2]>>>> \o cuts
                \o <<<<4 * pts[n][1], 4 * pts[n][2]>>>>

\* C26: one Chaikin iteration on a polyline of three points or more gives,
\* in order, the points at 1/4 and 3/4 of each of its segments (n - 1 when
\* open, n when closed), an open polyline keeping its first and last point;
\* smoothing the reversed open polyline and reversing back gives the same.
C26_ChaikinCutsEverySegment ==
    res.kind = "points" =>
        /\ res.unit = 4
        /\ res.points = QuarterPoints(input.pts, input.closed)

----------------------------------------------------------------------------
(* isProcessing in processImage and removeBackground *)

(* In this part call holds the tool, the number of invocations so far and
   the await at which the running invocation stands, res the component's
   isProcessing, processedUrl and errorMessage, and orig the way each
   finished invocation ended; input and heap are unused. *)

ProcessingMaxCalls == 3

\* the awaits of removeImageBackground and of getBackgroundMask, in order
BackgroundAwaits ==
    <<"getModel", "FileReader.onload", "htmlImage.onload", "segment", "toBlob">>

\* the awaits whose promise has a resolve and no reject: a load event
\* resolves it and an error event has no listener
LoadAwaits == {"img.onload", "FileReader.onload", "htmlImage.onload"}

\* the awaits whose promise can reject
RejectingAwaits == {"import", "getModel", "segment"}

Idle == [in |-> "none", await |-> "none"]

InitProcessing ==
    /\ input = <<>>
    /\ orig = <<>>
    /\ heap = <<>>
    /\ \E tool \in {"DitherTool", "BackgroundTool"} :
          call = [fn |-> tool, calls |-> 0, at |-> Idle]
    /\ res = [kind |-> "component", isProcessing |-> FALSE,
              processedUrl |-> 0, errorMessage |-> FALSE]

\* the finally block, after the try body completed or the catch ran
Finally(how) ==
    /\ orig' = Append(orig, how)
    /\ call' = [call EXCEPT !.at = Idle]
    /\ res' = [res EXCEPT !.isProcessing = FALSE,
                          !.processedUrl =
                              IF how = "done" THEN call.calls ELSE @,
                          !.errorMessage =
                              IF how = "caught" /\ call.fn = "BackgroundTool"
                              THEN TRUE ELSE @]

\* processImage() from the button, which isProcessing disables
processImage ==
    /\ call.fn = "DitherTool"
    /\ call.calls < ProcessingMaxCalls
    /\ ~res.isProcessing
    /\ call' = [call EXCEPT !.calls = @ + 1,
                            !.at = [in |-> "processImage", await |-> "img.onload"]]
    /\ res' = [res EXCEPT !.isProcessing = TRUE]
    /\ UNCHANGED <<input, orig, heap>>

\* removeBackground() from the button, which isProcessing disables
removeBackground ==
    /\ call.fn = "BackgroundTool"
    /\ call.calls < ProcessingMaxCalls
    /\ ~res.isProcessing
    /\ call' = [call EXCEPT !.calls = @ + 1,
                            !.at = [in |-> "removeBackground", await |-> "import"]]
    /\ res' = [res EXCEPT !.isProcessing = TRUE, !.errorMessage = FALSE]
    /\ UNCHANGED <<input, orig, heap>>

\* the position after the await at `at` is fulfilled, "return" at the end of
\* removeBackground's try body
AfterAwait(at) ==
    LET k == CHOOSE i \in 1..Len(BackgroundAwaits) : BackgroundAwaits[i] = at.await
    IN  IF at.await = "import"
        THEN [in |-> "removeImageBackground", await |-> BackgroundAwaits[1]]
        ELSE IF k < Len(BackgroundAwaits)
        THEN [in |-> at.in, await |-> BackgroundAwaits[k + 1]]
        ELSE IF at.in = "removeImageBackground"
        THEN [in |-> "getBackgroundMask", await |-> BackgroundAwaits[1]]
        ELSE [in |-> "return", await |-> "none"]

\* the promise awaited is fulfilled and the function runs to its next await;
\* the rest of processImage's try body completes or throws
AwaitFulfilled ==
    /\ call.at.await \notin {"none", "never"}
    /\ IF call.fn = "DitherTool"
       THEN \E how \in {"done", "caught"} : Finally(how)
       ELSE IF AfterAwait(call.at).in = "return"
       THEN Finally("done")
       ELSE /\ call' = [call EXCEPT !.at = AfterAwait(call.at)]
            /\ UNCHANGED <<orig, res>>
    /\ UNCHANGED <<input, heap>>

\* the promise awaited is rejected: the catch block runs, then finally
AwaitRejected ==
    /\ call.at.await \in RejectingAwaits
    /\ Finally("caught")
    /\ UNCHANGED <<input, heap>>

\* the image or the file fails to load: the error event finds no listener
\* and the promise made around onload is never settled
LoadFailed ==
    /\ call.at.await \in LoadAwaits
    /\ call' = [call EXCEPT !.at.await = "never"]
    /\ UNCHANGED <<input, orig, heap, res>>

NextProcessing ==
    \/ processImage
    \/ removeBackground
    \/ AwaitFulfilled
    \/ AwaitRejected
    \/ LoadFailed

\* every event awaited happens in the end; the user need not press again
SpecProcessing ==
    /\ InitProcessing
    /\ [][NextProcessing]_vars
    /\ WF_vars(AwaitFulfilled \/ AwaitRejected \/ LoadFailed)

\* C28: every invocation of processImage and of removeBackground sets
\* isProcessing back to false in the end, whether the processing succeeds,
\* throws or the image fails to decode.
C28_ProcessingEnds == res.isProcessing ~> ~res.isProcessing

----------------------------------------------------------------------------
(* The ordered dithering algorithms on uniform extreme images *)

OrderedMaxSide == 9

\* opaque white, opaque black and two fully transparent pixels
ExtremePixels ==
    {<<255, 255, 255, 255>>, <<0, 0, 0, 255>>, <<0, 0, 0, 0>>, <<10, 200, 30, 0>>}

\* the images of one extreme pixel, up to a side that tiles either matrix
OrderedImages ==
    {[width |-> w, height |-> h9, data |-> [i \in 1..(w * h9) |-> p]] :
        w \in 1..OrderedMaxSide, h9 \in 1..OrderedMaxSide, p \in ExtremePixels}

InitOrdered == \E image \in OrderedImages : Start(image)

NextOrdered == CallBayerOrdered \/ CallBayerOrdered4x4

SpecOrdered == InitOrdered /\ [][NextOrdered]_vars

\* C29: bayerOrdered and bayerOrdered4x4 return an image of opaque white or
\* of fully transparent pixels with every pixel white (255) and an image of
\* opaque black pixels with every pixel black (0), at every position of the
\* tiled matrix.
C29_OrderedKeepsExtremes ==
    (res.kind = "buffer" /\ call.fn \in {"bayerOrdered", "bayerOrdered4x4"}) =>
        \A i \in 1..Len(orig) :
            \E v \in {IF orig[i] = <<0, 0, 0, 255>> THEN 0 ELSE 255} :
                /\ Out[i][1] = v
                /\ Out[i][2] = v
                /\ Out[i][3] = v

----------------------------------------------------------------------------
(* toGrayscale applied to its own result *)

GrayMaxPixels == 3

GrayImages == Images(TonalPalette, GrayMaxPixels) \cup Images(WidePixels, 1)

InitGray == \E image \in GrayImages : Start(image)

\* toGrayscale(result) on the buffer that toGrayscale returned, as
\* sketchEffect does with the buffer applyPreset has passed through it
CallToGrayscaleAgain ==
    /\ call = [fn |-> "toGrayscale"]
    /\ res.kind = "buffer"
    /\ call' = [fn |-> "toGrayscale", again |-> TRUE]
    /\ \E ret \in {toGrayscale(heap, res.img)} :
          /\ heap' = ret.heap
          /\ res' = [kind |-> "buffer", img |-> ret.img, first |-> res.img]
    /\ UNCHANGED <<input, orig>>

NextGray == CallToGrayscale \/ CallToGrayscaleAgain

SpecGray == InitGray /\ [][NextGray]_vars

\* C30: toGrayscale applied to the result of toGrayscale returns that result
\* pixel for pixel, whatever the alpha of the pixels.
C30_GrayscaleIdempotent ==
    (res.kind = "buffer" /\ call = [fn |-> "toGrayscale", again |-> TRUE]) =>
        heap[res.img.id] = heap[res.first.id]

====
